---- MODULE Spec2Model ----
(***************************************************************************)
(* Control-flow graph builder and dominator analysis of                    *)
(* src/diagnostic/controlflow.py.                                          *)
(*                                                                         *)
(* Python lists that are shared by reference are modelled by a heap        *)
(* `lists`: a list object is an index into `lists`, a node's `parents` is  *)
(* such an index, and so is every frontier the walker threads through the  *)
(* tree.  Nodes are referred to by their rid.                              *)
(***************************************************************************)
EXTENDS Integers, Sequences, FiniteSets, TLC

VARIABLES registry, cache, lists, cf, pc, src, result, relinks,
          control_flow, start, key, dominator,
          tpc, tlocal, instances, lock, created,
          qlik, jira

vars == <<registry, cache, lists, cf, pc, src, result, relinks,
          control_flow, start, key, dominator,
          tpc, tlocal, instances, lock, created,
          qlik, jira>>

cfgvars == <<registry, cache, lists, cf, pc, src, result, relinks>>

domvars == <<control_flow, start, key, dominator>>

\* The threads: where each one is and its local names.
thrvars == <<tpc, tlocal>>

\* Singleton._instances, Singleton._lock and the instances created so far.
sglvars == <<instances, lock, created>>

\* The Qlik object with its app folder, and the Jira paging loop.
xpvars == <<qlik, jira>>

Range(s) == {s[i] : i \in DOMAIN s}

NoErr == "none"

(***************************************************************************)
(* Syntax trees (the value ast.parse returns).  Expressions and statements *)
(* are records; `k` is the lower-cased class name walk dispatches on.      *)
(***************************************************************************)
Name == [k |-> "name", fk |-> "", id |-> "", func |-> <<>>, args |-> <<>>]

\* The name `id`, where the text of the name matters.
NameId(id) == [k |-> "name", fk |-> "", id |-> id, func |-> <<>>, args |-> <<>>]

NoneValue == [k |-> "nonetype", fk |-> "", id |-> "", func |-> <<>>, args |-> <<>>]

Call(fk, id, func, args) == [k |-> "call", fk |-> fk, id |-> id, func |-> func, args |-> args]

CallName(id) == Call("name", id, <<>>, <<>>)

BinOp(l, r) == [k |-> "binop", fk |-> "", id |-> "", func |-> <<>>, args |-> <<l, r>>]

Compare(l, comparators) == [k |-> "compare", fk |-> "", id |-> "", func |-> <<>>, args |-> <<l>> \o comparators]

UnaryOp(e) == [k |-> "unaryop", fk |-> "", id |-> "", func |-> <<>>, args |-> <<e>>]

BoolOp(values) == [k |-> "boolop", fk |-> "", id |-> "", func |-> <<>>, args |-> values]

Stmt(k, value, body, orelse, name, ntargets) ==
    [k |-> k, lineno |-> 0, value |-> value, body |-> body, orelse |-> orelse,
     name |-> name, ntargets |-> ntargets]

Pass == Stmt("pass", NoneValue, <<>>, <<>>, "", 0)

Break == Stmt("break", NoneValue, <<>>, <<>>, "", 0)

Continue == Stmt("continue", NoneValue, <<>>, <<>>, "", 0)

Assign(ntargets, value) == Stmt("assign", value, <<>>, <<>>, "", ntargets)

AugAssign(value) == Stmt("augassign", value, <<>>, <<>>, "", 1)

AnnAssign(value) == Stmt("annassign", value, <<>>, <<>>, "", 1)

Expr(value) == Stmt("expr", value, <<>>, <<>>, "", 0)

Return(value) == Stmt("return", value, <<>>, <<>>, "", 0)

If(test, body, orelse) == Stmt("if", test, body, orelse, "", 0)

While(test, body) == Stmt("while", test, body, <<>>, "", 0)

For(iter, body) == Stmt("for", iter, body, <<>>, "", 0)

FunctionDef(name, body) == Stmt("functiondef", NoneValue, body, <<>>, name, 0)

Import == Stmt("import", NoneValue, <<>>, <<>>, "", 0)

(***************************************************************************)
(* ControlFlow.parse: ast.parse gives every statement its line number.     *)
(* The source text is laid out with one statement per line, a compound     *)
(* statement's header on its own line and `else:` on its own line.         *)
(***************************************************************************)
RECURSIVE number_stmts(_, _, _, _)
number_stmts(stmts, i, line, acc) ==
    IF i > Len(stmts) THEN [stmts |-> acc, line |-> line]
    ELSE LET s == stmts[i]
             b == number_stmts(s.body, 1, line + 1, <<>>)
             o == IF s.orelse = <<>> THEN [stmts |-> <<>>, line |-> b.line]
                  ELSE number_stmts(s.orelse, 1, b.line + 1, <<>>)
             s1 == [s EXCEPT !.lineno = line, !.body = b.stmts, !.orelse = o.stmts]
         IN number_stmts(stmts, i + 1, o.line, Append(acc, s1))

parse(source) ==
    [k |-> "module", lineno |-> 0, value |-> NoneValue,
     body |-> number_stmts(source, 1, 1, <<>>).stmts, orelse |-> <<>>,
     name |-> "", ntargets |-> 0]

(***************************************************************************)
(* ControlFlowNode                                                         *)
(***************************************************************************)
NewList(w, s) == [w EXCEPT !.lists = Append(@, s)]

LastList(w) == Len(w.lists)

add_child(c, p, self) ==
    IF self \in Range(c[p].children) THEN c
    ELSE [c EXCEPT ![p].children = Append(@, self)]

node_update_children(c, parents, self) ==
    [p \in DOMAIN c |->
        IF p \in Range(parents) /\ self \notin Range(c[p].children)
        THEN [c[p] EXCEPT !.children = Append(@, self)]
        ELSE c[p]]

register(w, node) ==
    [w EXCEPT !.cache = (w.registry :> node) @@ w.cache,
              !.registry = w.registry + 1]

\* ControlFlowNode.__init__: the new node's rid is the registry value before
\* the call.  `parents or []` keeps the caller's list object unless it is empty.
\* `source` is what source() gives as far as it is read: the text "start"
\* or "stop", and otherwise the kind of the node.
ControlFlowNode(w, parents, ast, lineno) ==
    LET rid == w.registry
        ps == w.lists[parents]
        w1 == IF ps = <<>> THEN NewList(w, <<>>) ELSE w
        own == IF ps = <<>> THEN LastList(w1) ELSE parents
        node == [rid |-> rid, parents |-> own, ast |-> ast, source |-> ast, lineno |-> lineno,
                 children |-> <<>>, calls |-> <<>>,
                 has_exit_nodes |-> FALSE, exit_nodes |-> <<>>,
                 has_return_nodes |-> FALSE, return_nodes |-> <<>>,
                 calllink |-> -1, calleelink |-> FALSE, fn_exit_node |-> FALSE]
        w2 == register(w1, node)
    IN [w2 EXCEPT !.cache = node_update_children(@, ps, rid)]

\* add_parent without the membership test.
add_parent_unguarded(w, self, p) ==
    [w EXCEPT !.lists[w.cache[self].parents] = Append(@, p)]

\* ControlFlowNode.set_parents: self.parents = p, a list object of its own
set_parents(w, self, p) ==
    [NewList(w, p) EXCEPT !.cache[self].parents = Len(w.lists) + 1]

add_parent(w, self, p) ==
    LET l == w.cache[self].parents
    IN IF p \in Range(w.lists[l]) THEN w
       ELSE [w EXCEPT !.lists[l] = Append(@, p)]

RECURSIVE add_parents(_, _, _)
add_parents(w, self, ps) ==
    IF ps = <<>> THEN w
    ELSE add_parents(add_parent(w, self, Head(ps)), self, Tail(ps))

add_calls(w, self, func) == [w EXCEPT !.cache[self].calls = Append(@, func)]

(***************************************************************************)
(* The climb of on_break, on_continue and on_return along parents[0].      *)
(* The result is the rid found, IndexErr when a node without parents is    *)
(* reached, Diverges when the chain returns to a node it already visited   *)
(* (the Python loop then never ends).                                      *)
(***************************************************************************)
IndexErr == -1

Diverges == -2

hasattr(node, attr) ==
    IF attr = "exit_nodes" THEN node.has_exit_nodes ELSE node.has_return_nodes

RECURSIVE climb(_, _, _, _)
climb(w, parent, attr, seen) ==
    IF hasattr(w.cache[parent], attr) THEN parent
    ELSE IF w.lists[w.cache[parent].parents] = <<>> THEN IndexErr
    ELSE IF parent \in seen THEN Diverges
    ELSE climb(w, Head(w.lists[w.cache[parent].parents]), attr, seen \cup {parent})

ClimbErr(r) == IF r = IndexErr THEN "IndexError" ELSE "Diverges"

Raise(w, e) == [w EXCEPT !.err = e]

Returns(w, l) == [w EXCEPT !.ret = l]

(***************************************************************************)
(* ControlFlow: the walker.  Every handler takes the walk state w, the     *)
(* syntax node and the frontier myparents (a list object) and returns the  *)
(* walk state with the returned frontier in w.ret.  A handler is written   *)
(* as the chain of its steps; each step receives the state the previous    *)
(* step left.                                                              *)
(***************************************************************************)
RECURSIVE walk(_, _, _)

\* for n in body: p = self.walk(n, p)
RECURSIVE walk_stmts(_, _, _)
walk_rest(w, stmts) == walk_stmts(w, stmts, w.ret)

walk_stmts(w, stmts, p) ==
    IF w.err # NoErr THEN w
    ELSE IF stmts = <<>> THEN Returns(w, p)
    ELSE walk_rest(walk(w, Head(stmts), p), Tail(stmts))

\* The same loop started on the list built last.
walk_stmts_from_last(w, stmts) == walk_stmts(w, stmts, LastList(w))

\* The frontier is the list built last.
ReturnsLast(w) == Returns(w, LastList(w))

\* [ControlFlowNode(parents=myparents, ast=node)]
node_in_list(w, myparents, ast, lineno) ==
    NewList(ControlFlowNode(w, myparents, ast, lineno), <<w.registry>>)

\* self.walk(expr, [node]) on the list built last
walk_from_last(w, expr) == walk(w, expr, LastList(w))

on_module(w, node, myparents) == walk_stmts(w, node.body, myparents)

\* p = [ControlFlowNode(parents=myparents, ast=node)]; p = self.walk(node.value, p)
simple_stmt(w, node, myparents) ==
    walk_from_last(node_in_list(w, myparents, node.k, node.lineno), node.value)

on_augassign(w, node, myparents) == simple_stmt(w, node, myparents)

on_annassign(w, node, myparents) == simple_stmt(w, node, myparents)

on_assign(w, node, myparents) ==
    IF node.ntargets > 1 THEN Raise(w, "NotImplementedError")
    ELSE simple_stmt(w, node, myparents)

\* ControlFlowNode.source() of the node of an expression statement: the
\* text of the name when the expression is a bare name.
expr_source(w, rid, node) ==
    IF node.value.k = "name" /\ node.value.id # ""
    THEN [w EXCEPT !.cache[rid].source = node.value.id]
    ELSE w

on_expr(w, node, myparents) ==
    walk_from_last(expr_source(node_in_list(w, myparents, node.k, node.lineno), w.registry, node),
                   node.value)

on_pass(w, node, myparents) ==
    ReturnsLast(node_in_list(w, myparents, "pass", node.lineno))

\* p = ControlFlowNode(...); parent.exit_nodes.append(p); return []
break_node(w, node, myparents, parent) ==
    IF parent < 0 THEN Raise(w, ClimbErr(parent))
    ELSE ReturnsLast(NewList(
             [ControlFlowNode(w, myparents, "break", node.lineno)
                 EXCEPT !.cache[parent].exit_nodes = Append(@, w.registry)],
             <<>>))

on_break(w, node, myparents) ==
    IF w.lists[myparents] = <<>> THEN Raise(w, "IndexError")
    ELSE break_node(w, node, myparents,
                    climb(w, Head(w.lists[myparents]), "exit_nodes", {}))

\* p = ControlFlowNode(...); parent.add_parent(p); return []
continue_node(w, node, myparents, parent) ==
    IF parent < 0 THEN Raise(w, ClimbErr(parent))
    ELSE ReturnsLast(NewList(
             add_parent(ControlFlowNode(w, myparents, "continue", node.lineno),
                        parent, w.registry),
             <<>>))

on_continue(w, node, myparents) ==
    IF w.lists[myparents] = <<>> THEN Raise(w, "IndexError")
    ELSE continue_node(w, node, myparents,
                       climb(w, Head(w.lists[myparents]), "exit_nodes", {}))

\* _test_node.exit_nodes = []
with_exit_nodes(w, test) ==
    [w EXCEPT !.cache[test].has_exit_nodes = TRUE, !.cache[test].exit_nodes = <<>>]

\* _test_node.add_parents(p1); return _test_node.exit_nodes + test_node
loop_exit(w, test, test_node) ==
    ReturnsLast(NewList(w, w.cache[test].exit_nodes \o w.lists[test_node]))

loop_back(w, test, test_node) ==
    IF w.err # NoErr THEN w
    ELSE loop_exit(add_parents(w, test, w.lists[w.ret]), test, test_node)

\* init_node and the list [init_node]
for_init(w, node, myparents) == node_in_list(w, myparents, "__iv", node.lineno)

\* _test_node, its exit_nodes and test_node = self.walk(node.iter, [_test_node])
for_test(w, node) ==
    walk_from_last(
        NewList(with_exit_nodes(ControlFlowNode(w, LastList(w), "_for", node.lineno),
                                w.registry),
                <<w.registry>>),
        node.value)

\* extract_node, p1 = [extract_node] and the walk of the body
for_body(w, node, test) ==
    IF w.err # NoErr THEN w
    ELSE loop_back(walk_stmts_from_last(node_in_list(w, w.ret, "next", node.lineno),
                                        node.body),
                   test, w.ret)

for_loop(w, node) == for_body(for_test(w, node), node, w.registry)

on_for(w, node, myparents) == for_loop(for_init(w, node, myparents), node)

\* _test_node, its exit_nodes and test_node = self.walk(node.test, [_test_node])
while_test(w, node, myparents) ==
    walk_from_last(
        NewList(with_exit_nodes(ControlFlowNode(w, myparents, "_while", node.lineno),
                                w.registry),
                <<w.registry>>),
        node.value)

while_body(w, node, test) ==
    IF w.err # NoErr THEN w
    ELSE loop_back(walk_stmts(w, node.body, w.ret), test, w.ret)

on_while(w, node, myparents) ==
    while_body(while_test(w, node, myparents), node, w.registry)

\* _test_node and test_node = self.walk(node.test, [_test_node])
if_test(w, node, myparents) ==
    walk_from_last(node_in_list(w, myparents, "_if", node.lineno), node.value)

\* return g1 + g2
if_exit(w, g1) ==
    IF w.err # NoErr THEN w
    ELSE ReturnsLast(NewList(w, w.lists[g1] \o w.lists[w.ret]))

\* The else branch walked from the frontier the body left.
if_orelse_after_body(w, node, test_node) ==
    IF w.err # NoErr THEN w
    ELSE if_exit(walk_stmts(w, node.orelse, w.ret), w.ret)

\* g2 = test_node; for n in node.orelse: g2 = self.walk(n, g2)
if_orelse(w, node, test_node) ==
    IF w.err # NoErr THEN w
    ELSE if_exit(walk_stmts(w, node.orelse, test_node), w.ret)

\* g1 = test_node; for n in node.body: g1 = self.walk(n, g1)
if_body(w, node) ==
    IF w.err # NoErr THEN w
    ELSE if_orelse(walk_stmts(w, node.body, w.ret), node, w.ret)

on_if(w, node, myparents) == if_body(if_test(w, node, myparents), node)

\* for a in node.args: p = self.walk(a, p)
RECURSIVE walk_args(_, _, _)
walk_args_rest(w, args) == walk_args(w, args, w.ret)

walk_args(w, args, p) ==
    IF w.err # NoErr THEN w
    ELSE IF args = <<>> THEN Returns(w, p)
    ELSE walk_args_rest(walk(w, Head(args), p), Tail(args))

\* left = self.walk(node.left, myparents); return self.walk(node.right, left)
on_binop(w, node, myparents) == walk_args(w, node.args, myparents)

\* left = self.walk(node.left, myparents); return self.walk(node.comparators[0], left)
on_compare(w, node, myparents) == walk_args(w, SubSeq(node.args, 1, 2), myparents)

on_unaryop(w, node, myparents) == walk(w, node.args[1], myparents)

\* get_func: the callee name, "" when the callee kind raises Exception.
RECURSIVE get_func(_)
get_func(node) ==
    IF node.fk = "name" THEN node.id
    ELSE IF node.fk = "attribute" THEN node.id
    ELSE IF node.fk = "call" THEN get_func(node.func)
    ELSE IF node.fk = "boolop" THEN "ast.Or"
    ELSE ""

\* for c in p: c.calllink = 0
set_calllink(w, p) ==
    Returns([w EXCEPT !.cache = [c \in DOMAIN w.cache |->
                IF c \in Range(w.lists[p]) THEN [w.cache[c] EXCEPT !.calllink = 0]
                ELSE w.cache[c]]], p)

\* mid = get_func(node); myparents[0].add_calls(mid)
call_site(w, node, myparents) ==
    IF w.err # NoErr THEN w
    ELSE IF get_func(node) = "" THEN Raise(w, "Exception")
    ELSE IF w.lists[myparents] = <<>> THEN Raise(w, "IndexError")
    ELSE set_calllink(add_calls(w, Head(w.lists[myparents]), get_func(node)), w.ret)

on_call(w, node, myparents) ==
    call_site(walk_args(w, node.args, myparents), node, myparents)

\* p = ControlFlowNode(parents=val_node, ast=node); parent.return_nodes.append(p)
return_node(w, node, parent) ==
    IF parent < 0 THEN Raise(w, ClimbErr(parent))
    ELSE ReturnsLast(NewList(
             [ControlFlowNode(w, w.ret, "return", node.lineno)
                 EXCEPT !.cache[parent].return_nodes = Append(@, w.registry)],
             <<>>))

return_value(w, node, first) ==
    IF w.err # NoErr THEN w
    ELSE return_node(w, node, climb(w, first, "return_nodes", {}))

on_return(w, node, myparents) ==
    IF w.lists[myparents] = <<>> THEN Raise(w, "IndexError")
    ELSE return_value(walk(w, node.value, myparents), node, Head(w.lists[myparents]))

\* ControlFlowNode(parents=[], ast=...)
sentinel(w, ast, lineno) ==
    ControlFlowNode(NewList(w, <<>>), Len(w.lists) + 1, ast, lineno)

enter_node(w, node) ==
    [sentinel(w, "enter", node.lineno) EXCEPT !.cache[w.registry].calleelink = TRUE]

exit_node(w, node, enter) ==
    [sentinel(w, "exit", node.lineno)
        EXCEPT !.cache[w.registry].fn_exit_node = TRUE,
               !.cache[enter].has_return_nodes = TRUE,
               !.cache[enter].return_nodes = <<>>]

\* p = [enter_node]; for n in node.body: p = self.walk(n, p)
def_body(w, node, enter) ==
    walk_stmts(NewList(w, <<enter>>), node.body, Len(w.lists) + 1)

\* for n in p: if n not in enter_node.return_nodes: enter_node.return_nodes.append(n)
RECURSIVE append_missing(_, _)
append_missing(return_nodes, p) ==
    IF p = <<>> THEN return_nodes
    ELSE append_missing(IF Head(p) \in Range(return_nodes) THEN return_nodes
                        ELSE Append(return_nodes, Head(p)), Tail(p))

\* The return list left with the explicit returns only.
def_returns_explicit_only(w, enter) == w

def_returns(w, enter) ==
    [w EXCEPT !.cache[enter].return_nodes = append_missing(@, w.lists[w.ret])]

\* The definition handing on the frontier its body ended in.
def_register_body_frontier(w, node, myparents, enter, exit) ==
    [add_parents(w, exit, w.cache[enter].return_nodes)
        EXCEPT !.functions = (node.name :> <<enter, exit>>) @@ @,
               !.functions_node = (node.lineno :> node.name) @@ @]

\* exit_node.add_parent(n) for the return nodes, and the two tables
def_register(w, node, myparents, enter, exit) ==
    Returns([add_parents(w, exit, w.cache[enter].return_nodes)
                EXCEPT !.functions = (node.name :> <<enter, exit>>) @@ @,
                       !.functions_node = (node.lineno :> node.name) @@ @],
            myparents)

def_exit(w, node, myparents, enter) ==
    IF w.err # NoErr THEN w
    ELSE def_register(def_returns(w, enter), node, myparents, enter, enter + 1)

on_functiondef(w, node, myparents) ==
    def_exit(def_body(exit_node(enter_node(w, node), node, w.registry), node, w.registry),
             node, myparents, w.registry)

walk(w, node, myparents) ==
    IF w.err # NoErr THEN w
    ELSE CASE node.k = "module" -> on_module(w, node, myparents)
           [] node.k = "augassign" -> on_augassign(w, node, myparents)
           [] node.k = "annassign" -> on_annassign(w, node, myparents)
           [] node.k = "assign" -> on_assign(w, node, myparents)
           [] node.k = "pass" -> on_pass(w, node, myparents)
           [] node.k = "break" -> on_break(w, node, myparents)
           [] node.k = "continue" -> on_continue(w, node, myparents)
           [] node.k = "for" -> on_for(w, node, myparents)
           [] node.k = "while" -> on_while(w, node, myparents)
           [] node.k = "if" -> on_if(w, node, myparents)
           [] node.k = "binop" -> on_binop(w, node, myparents)
           [] node.k = "compare" -> on_compare(w, node, myparents)
           [] node.k = "unaryop" -> on_unaryop(w, node, myparents)
           [] node.k = "call" -> on_call(w, node, myparents)
           [] node.k = "expr" -> on_expr(w, node, myparents)
           [] node.k = "return" -> on_return(w, node, myparents)
           [] node.k = "functiondef" -> on_functiondef(w, node, myparents)
           [] OTHER -> Returns(w, myparents)

(***************************************************************************)
(* The passes after the walk.                                              *)
(***************************************************************************)
RECURSIVE add_children(_, _, _)
add_children(c, parents, self) ==
    IF parents = <<>> THEN c
    ELSE add_children(add_child(c, Head(parents), self), Tail(parents), self)

\* for nid, node in cache.items(): for p in node.parents: p.add_child(node)
RECURSIVE update_children_from(_, _)
update_children_from(w, nid) ==
    IF nid >= w.registry THEN w
    ELSE update_children_from(
             [w EXCEPT !.cache = add_children(@, w.lists[w.cache[nid].parents], nid)],
             nid + 1)

update_children(w) == update_children_from(w, 0)

\* The result is the memo table functions_node, the name found and the
\* error: a first-parent chain that returns to a node it is still resolving
\* recurses until Python raises RecursionError.
RECURSIVE get_defining_function(_, _, _, _)
get_defining_function(fn, w, n, seen) ==
    LET node == w.cache[n]
        ps == w.lists[node.parents]
    IN IF node.lineno \in DOMAIN fn
       THEN [fn |-> fn, val |-> fn[node.lineno], err |-> NoErr]
       ELSE IF ps = <<>>
       THEN [fn |-> (node.lineno :> "") @@ fn, val |-> "", err |-> NoErr]
       ELSE IF n \in seen
       THEN [fn |-> fn, val |-> "", err |-> "RecursionError"]
       ELSE LET r == get_defining_function(fn, w, Head(ps), seen \cup {n})
            IN IF r.err # NoErr THEN r
               ELSE [fn |-> (node.lineno :> r.val) @@ r.fn, val |-> r.val, err |-> NoErr]

RECURSIVE update_functions_from(_, _)
update_functions_from(w, nid) ==
    IF w.err # NoErr \/ nid >= w.registry THEN w
    ELSE LET r == get_defining_function(w.functions_node, w, nid, {})
         IN update_functions_from([w EXCEPT !.functions_node = r.fn, !.err = r.err], nid + 1)

update_functions(w) == update_functions_from(w, 0)

\* for i in node.children: i.add_parent(exit)
RECURSIVE link_children(_, _, _)
link_children(w, children, exit) ==
    IF children = <<>> THEN w
    ELSE link_children(add_parent(w, Head(children), exit), Tail(children), exit)

\* The linker that links a call of an unregistered name to some registered
\* function.
link_call_any(w, node, calls) ==
    IF DOMAIN w.functions = {} THEN w
    ELSE LET f == IF calls \in DOMAIN w.functions THEN calls
                  ELSE CHOOSE g \in DOMAIN w.functions : TRUE
             w1 == add_parent(w, w.functions[f][1], node)
         IN IF w1.cache[node].children = <<>> THEN w1
            ELSE IF w1.cache[node].calllink <= -1 THEN Raise(w1, "AttributeError")
            ELSE link_children([w1 EXCEPT !.cache[node].calllink = @ + 1],
                               w1.cache[node].children, w.functions[f][2])

\* The linker with the first edge turned round: enter becomes a parent of
\* the call node.
link_call_enter_above(w, node, calls) ==
    IF calls \notin DOMAIN w.functions THEN w
    ELSE LET enter == w.functions[calls][1]
             exit == w.functions[calls][2]
             w1 == add_parent(w, node, enter)
         IN IF w1.cache[node].children = <<>> THEN w1
            ELSE IF w1.cache[node].calllink <= -1 THEN Raise(w1, "AttributeError")
            ELSE link_children([w1 EXCEPT !.cache[node].calllink = @ + 1],
                               w1.cache[node].children, exit)

\* The body of `for calls in node.calls` for one callee name.  A node whose
\* calllink is -1 has no calllink attribute: `assert node.calllink > -1`
\* fails on the attribute access.
link_call(w, node, calls) ==
    IF calls \notin DOMAIN w.functions THEN w
    ELSE LET enter == w.functions[calls][1]
             exit == w.functions[calls][2]
             w1 == add_parent(w, enter, node)
         IN IF w1.cache[node].children = <<>> THEN w1
            ELSE IF w1.cache[node].calllink <= -1 THEN Raise(w1, "AttributeError")
            ELSE link_children([w1 EXCEPT !.cache[node].calllink = @ + 1],
                               w1.cache[node].children, exit)

RECURSIVE link_calls(_, _, _)
link_calls(w, node, calls) ==
    IF w.err # NoErr \/ calls = <<>> THEN w
    ELSE link_calls(link_call(w, node, Head(calls)), node, Tail(calls))

RECURSIVE link_functions_from(_, _)
link_functions_from(w, nid) ==
    IF w.err # NoErr \/ nid >= w.registry THEN w
    ELSE link_functions_from(link_calls(w, nid, w.cache[nid].calls), nid + 1)

link_functions(w) == link_functions_from(w, 0)

\* A reset that sets the counter back and keeps the cache.
reset_counter_only(w) == [w EXCEPT !.registry = 0]

\* ControlFlowRegistry.reset assigns two local names and leaves the class
\* attributes registry and cache as they are.
reset(w) == w

\* ControlFlow.__init__
ControlFlow(w) ==
    [sentinel(w, "start", 0) EXCEPT !.founder = w.registry, !.functions = <<>>,
                                    !.functions_node = <<>>, !.last_node = -1]

\* self.last_node = ControlFlowNode(parents=nodes, ast=...)
last_node(w) ==
    IF w.err # NoErr THEN w
    ELSE [ControlFlowNode(w, w.ret, "stop", 0) EXCEPT !.last_node = w.registry]

\* ControlFlow.generate_control_flow up to the creation of last_node.
build_graph(w, source) ==
    last_node(walk_from_last(NewList(w, <<w.founder>>), parse(source)))

(***************************************************************************)
(* compute_dominator.  control_flow maps a node to its record, of which    *)
(* only the field selected by key is read: graph[n] is control_flow[n][key]*)
(***************************************************************************)
Intersection(doms) ==
    IF doms = {} THEN {}
    ELSE {x \in UNION doms : \A d \in doms : x \in d}

\* The body of the loop with v = i, the node itself left out.
dominator_step_without_self(g, k, dom, n) ==
    [dom EXCEPT ![n] = Intersection({dom[p] : p \in g[n][k]})]

\* One execution of the body of `for n in rem_nodes` for node n: the new
\* mapping.
dominator_step(g, k, dom, n) ==
    LET pred_n == g[n][k]
        doms == {dom[p] : p \in pred_n}
        i == Intersection(doms)
        v == {n} \cup i
    IN [dom EXCEPT ![n] = v]

\* One pass of the while loop over rem_nodes in the order given.
RECURSIVE dominator_pass(_, _, _, _)
dominator_pass(g, k, dom, order) ==
    IF order = <<>> THEN dom
    ELSE dominator_pass(g, k, dominator_step(g, k, dom, Head(order)), Tail(order))

\* The orders in which `for n in rem_nodes` may visit the set rem_nodes: the
\* order is the one of the hash table of the set, which the interpreter
\* chooses, so every order of the elements is one of them.
iteration_order(S) ==
    {o \in [1..Cardinality(S) -> S] : \A i, j \in DOMAIN o : o[i] = o[j] => i = j}

\* The flag c at the end of a pass with the flag kept from the last node
\* visited only.
changed_at_last(g, k, dom, order) ==
    order # <<>> /\
    dominator_pass(g, k, dom, order)[order[Len(order)]] #
        dominator_pass(g, k, dom, SubSeq(order, 1, Len(order) - 1))[order[Len(order)]]

\* The flag c at the end of a pass: some dominator[n] != v was seen.  Every
\* node is assigned once in a pass, so this is a change of the mapping.
changed(g, k, dom, order) == dominator_pass(g, k, dom, order) # dom

RECURSIVE dominator_loop(_, _, _, _)
dominator_loop(g, k, dom, order) ==
    IF changed(g, k, dom, order)
    THEN dominator_loop(g, k, dominator_pass(g, k, dom, order), order)
    ELSE dominator_pass(g, k, dom, order)

\* The mapping before the first pass.
initial_dominator(g, s) ==
    [n \in DOMAIN g \cup {s} |-> IF n = s THEN {s} ELSE DOMAIN g]

\* compute_dominator with the order in which its passes visit rem_nodes;
\* the set is not changed between the passes, so the order is the same in
\* each of them.
compute_dominator(g, s, k, order) ==
    dominator_loop(g, k, initial_dominator(g, s), order)

(***************************************************************************)
(* Inputs: the programs handed to generate_control_flow.                   *)
(***************************************************************************)
MaxStmts == 3

MaxRegistry == 1

MaxRelinks == 1

\* Statements a block may hold: simple statements everywhere, break and
\* continue inside a loop, return inside a function.
Leaves(loop, fn) ==
    {Pass, Expr(CallName("f"))}
    \cup (IF loop THEN {Break, Continue} ELSE {})
    \cup (IF fn THEN {Return(NoneValue)} ELSE {})

\* All statements made of exactly n statement nodes, and all blocks
\* (statement sequences) made of exactly n statement nodes.
RECURSIVE StmtsOfSize(_, _, _), BlocksOfSize(_, _, _)
StmtsOfSize(n, loop, fn) ==
    IF n < 1 THEN {}
    ELSE IF n = 1 THEN Leaves(loop, fn)
    ELSE {While(Name, b) : b \in BlocksOfSize(n - 1, TRUE, fn)}
         \cup {FunctionDef("f", b) : b \in BlocksOfSize(n - 1, FALSE, TRUE)}
         \cup UNION {{If(Name, a, b) : a \in BlocksOfSize(i, loop, fn),
                                      b \in BlocksOfSize(n - 1 - i, loop, fn)}
                        : i \in 1..(n - 1)}

BlocksOfSize(n, loop, fn) ==
    IF n = 0 THEN {<<>>}
    ELSE UNION {{<<s>> \o b : s \in StmtsOfSize(i, loop, fn), b \in BlocksOfSize(n - i, loop, fn)}
                   : i \in 1..n}

Blocks == UNION {BlocksOfSize(n, FALSE, FALSE) : n \in 0..MaxStmts}

\* A loop followed by a statement, a function that is then called, and an
\* if/else followed by a statement.
LoopThen ==
    {<<While(Name, b), Pass>> : b \in UNION {BlocksOfSize(n, TRUE, FALSE) : n \in 1..(MaxStmts - 1)}}

DefThenCall ==
    {<<FunctionDef("f", b), Expr(CallName("f")), Pass>> :
        b \in UNION {BlocksOfSize(n, FALSE, TRUE) : n \in 1..(MaxStmts - 1)}}

IfElseThen ==
    UNION {{<<If(Name, a, b), Pass>> : a \in BlocksOfSize(ij[1], FALSE, FALSE),
                                      b \in BlocksOfSize(ij[2], FALSE, FALSE)}
              : ij \in {x \in (1..MaxStmts) \X (1..MaxStmts) : x[1] + x[2] <= MaxStmts}}

\* Programs no Python compiler accepts but ast.parse does, and constructs
\* the walker has no rule for.
IllFormed ==
    {<<Break>>, <<Continue>>, <<Return(NoneValue)>>,
     <<Pass, Break>>, <<While(Name, <<Pass>>), Break>>,
     <<While(Name, <<Break, Break>>)>>,
     <<Assign(2, Name)>>, <<Import, Pass>>}

\* Programs with deeper nesting, for loops and calls in other positions.
Extra ==
    {<<While(Name, <<While(Name, <<Pass>>), Break>>), Pass>>,
     <<While(Name, <<If(Name, <<Break>>, <<>>), Pass>>), Pass>>,
     <<FunctionDef("f", <<Return(NoneValue), While(Name, <<Pass>>), Return(NoneValue)>>)>>,
     <<For(Name, <<Pass>>), Pass>>,
     <<For(CallName("f"), <<If(Name, <<Break>>, <<Continue>>)>>), Pass>>,
     <<FunctionDef("f", <<Return(CallName("g"))>>), Assign(1, CallName("f")), Expr(CallName("g"))>>,
     <<Pass, FunctionDef("f", <<Return(NoneValue)>>), Pass>>,
     <<FunctionDef("f", <<Pass>>), Expr(Call("name", "f", <<>>, <<CallName("f")>>)), Pass>>,
     <<Expr(Call("attribute", "f", <<>>, <<>>)), Expr(Call("call", "", CallName("f"), <<>>))>>,
     <<Expr(Call("boolop", "", <<>>, <<>>)), Pass>>,
     <<Expr(Call("subscript", "", <<>>, <<>>)), Pass>>,
     <<Expr(NameId("start")), Pass>>,
     <<Pass, Expr(NameId("stop"))>>}

Programs == Blocks \cup LoopThen \cup DefThenCall \cup IfElseThen \cup IllFormed \cup Extra

(***************************************************************************)
(* The state machine of the builder.                                       *)
(***************************************************************************)
NoResult == [status |-> "none", keys |-> {}, err |-> NoErr]

NoControlFlow == [founder |-> -1, functions |-> <<>>, functions_node |-> <<>>, last_node |-> -1]

\* The walk state made of the class attributes, the heap and the
\* ControlFlow object.
State ==
    [registry |-> registry, cache |-> cache, lists |-> lists,
     founder |-> cf.founder, functions |-> cf.functions,
     functions_node |-> cf.functions_node, last_node |-> cf.last_node,
     err |-> NoErr, ret |-> 0]

Store(w) ==
    /\ registry' = w.registry
    /\ cache' = w.cache
    /\ lists' = w.lists
    /\ cf' = [founder |-> w.founder, functions |-> w.functions,
              functions_node |-> w.functions_node, last_node |-> w.last_node]

Raised(e) == [status |-> "raised", keys |-> {}, err |-> e]

\* No thread is running, no Singleton class has been called and no Qlik or
\* Jira object is in use.
NoThreads ==
    /\ tpc = <<>>
    /\ tlocal = <<>>
    /\ instances = <<>>
    /\ lock = 0
    /\ created = <<>>
    /\ qlik = <<>>
    /\ jira = <<>>

Init ==
    /\ NoThreads
    /\ registry = 0
    /\ cache = <<>>
    /\ lists = <<>>
    /\ cf = NoControlFlow
    /\ pc = "idle"
    /\ src = <<>>
    /\ result = NoResult
    /\ relinks = 0
    /\ control_flow = <<>>
    /\ start = 0
    /\ key = "parents"
    /\ dominator = <<>>

\* generate_control_flow(source_code): reset, ControlFlow(), parse, walk and
\* the creation of last_node.
\* A further call is made only while the registry counter is at most
\* MaxRegistry.  On an exception the call is over and its argument is gone.
GenerateControlFlow(source) ==
    /\ pc = "idle"
    /\ registry <= MaxRegistry
    /\ LET w == build_graph(ControlFlow(reset(State)), source)
       IN /\ Store(w)
          /\ pc' = IF w.err = NoErr THEN "update_children" ELSE "idle"
          /\ src' = IF w.err = NoErr THEN source ELSE <<>>
          /\ result' = IF w.err = NoErr THEN NoResult ELSE Raised(w.err)
    /\ relinks' = 0
    /\ UNCHANGED <<domvars, thrvars, sglvars, xpvars>>

UpdateChildren ==
    /\ pc = "update_children"
    /\ Store(update_children(State))
    /\ pc' = "update_functions"
    /\ UNCHANGED <<src, result, relinks>>
    /\ UNCHANGED <<domvars, thrvars, sglvars, xpvars>>

UpdateFunctions ==
    /\ pc = "update_functions"
    /\ LET w == update_functions(State)
       IN /\ Store(w)
          /\ pc' = IF w.err = NoErr THEN "link_functions" ELSE "idle"
          /\ src' = IF w.err = NoErr THEN src ELSE <<>>
          /\ result' = IF w.err = NoErr THEN result ELSE Raised(w.err)
    /\ UNCHANGED relinks
    /\ UNCHANGED <<domvars, thrvars, sglvars, xpvars>>

LinkFunctions ==
    /\ pc = "link_functions"
    /\ LET w == link_functions(State)
       IN /\ Store(w)
          /\ pc' = IF w.err = NoErr THEN "return" ELSE "idle"
          /\ src' = IF w.err = NoErr THEN src ELSE <<>>
          /\ result' = IF w.err = NoErr THEN result ELSE Raised(w.err)
    /\ UNCHANGED relinks
    /\ UNCHANGED <<domvars, thrvars, sglvars, xpvars>>

\* cache = dict(ControlFlowRegistry.cache) and the filter on start and stop.
ReturnCache(remove_start_stop) ==
    /\ pc = "return"
    /\ result' = [status |-> "returned", err |-> NoErr,
                  keys |-> IF remove_start_stop
                           THEN {k \in DOMAIN cache : cache[k].source \notin {"start", "stop"}}
                           ELSE DOMAIN cache]
    /\ pc' = "idle"
    /\ src' = <<>>
    /\ relinks' = 0
    /\ UNCHANGED <<registry, cache, lists, cf>>
    /\ UNCHANGED <<domvars, thrvars, sglvars, xpvars>>

\* get_control_flow(file_names), and compute_flow, which calls it first:
\* ControlFlow() registers a new start node and control_flow.gen_cfg, which
\* ControlFlow does not have, raises AttributeError.
GetControlFlow ==
    /\ pc = "idle"
    /\ registry <= MaxRegistry
    /\ Store(ControlFlow(State))
    /\ result' = Raised("AttributeError")
    /\ relinks' = 0
    /\ UNCHANGED <<pc, src>>
    /\ UNCHANGED <<domvars, thrvars, sglvars, xpvars>>

\* The highest node a caller gives new parents to.
MaxEdited == 3

\* node.set_parents(p) on a node of the graph a build returned, with no
\* parent or with the start node as the only parent.  One such call is
\* made per returned graph.
SetParents(n, with_start) ==
    /\ pc = "idle"
    /\ result.status = "returned"
    /\ n \in result.keys
    /\ Store(set_parents(State, n, IF with_start THEN <<cf.founder>> ELSE <<>>))
    /\ result' = [result EXCEPT !.status = "edited"]
    /\ UNCHANGED <<pc, src, relinks>>
    /\ UNCHANGED <<domvars, thrvars, sglvars, xpvars>>

\* link_functions called once more on the ControlFlow object of a finished
\* build.
LinkFunctionsAgain ==
    /\ pc = "return"
    /\ relinks < MaxRelinks
    /\ LET w == link_functions(State)
       IN /\ w.err = NoErr
          /\ Store(w)
    /\ relinks' = relinks + 1
    /\ UNCHANGED <<pc, src, result>>
    /\ UNCHANGED <<domvars, thrvars, sglvars, xpvars>>

Next ==
    \/ \E source \in Programs : GenerateControlFlow(source)
    \/ UpdateChildren
    \/ UpdateFunctions
    \/ LinkFunctions
    \/ \E remove_start_stop \in BOOLEAN : ReturnCache(remove_start_stop)
    \/ LinkFunctionsAgain
    \/ GetControlFlow
    \/ \E n \in 0..MaxEdited, with_start \in BOOLEAN : SetParents(n, with_start)

Spec == Init /\ [][Next]_vars

(***************************************************************************)
(* The state machine of compute_dominator: the graph, the start node and   *)
(* the direction are drawn at the start, one action applies the function.  *)
(***************************************************************************)
MaxDomNodes == 3

MaxPreds == 2

\* Graphs on the nodes 0..n-1 whose nodes have at most MaxPreds parents;
\* children is the inverse of parents.
GraphOf(par) ==
    [n \in DOMAIN par |->
        [parents |-> par[n], children |-> {c \in DOMAIN par : n \in par[c]}]]

\* The parents sets a node of a graph on 0..n-1 may have.
PredSets(n) == {P \in SUBSET (0..(n - 1)) : Cardinality(P) <= MaxPreds}

\* start -> A -> {B, C} -> D with start = 0, A = 1, B = 2, C = 3, D = 4
Diamond == GraphOf((0 :> {}) @@ (1 :> {0}) @@ (2 :> {1}) @@ (3 :> {1}) @@ (4 :> {2, 3}))

InitDom ==
    /\ NoThreads
    /\ registry = 0
    /\ cache = <<>>
    /\ lists = <<>>
    /\ cf = NoControlFlow
    /\ pc = "compute_dominator"
    /\ src = <<>>
    /\ result = NoResult
    /\ relinks = 0
    /\ \/ \E n \in 1..MaxDomNodes : \E par \in [0..(n - 1) -> PredSets(n)] :
              control_flow = GraphOf(par)
       \/ control_flow = Diamond
    /\ start \in DOMAIN control_flow
    /\ key \in {"parents", "children"}
    /\ dominator = <<>>

ComputeDominator(order) ==
    /\ pc = "compute_dominator"
    /\ dominator' = compute_dominator(control_flow, start, key, order)
    /\ pc' = "dominator"
    /\ UNCHANGED <<registry, cache, lists, cf, src, result, relinks, control_flow, start, key>>
    /\ UNCHANGED <<thrvars, sglvars, xpvars>>

NextDom == \E order \in iteration_order(DOMAIN control_flow \ {start}) : ComputeDominator(order)

SpecDom == InitDom /\ [][NextDom]_vars

(***************************************************************************)
(* compute_dominator pass by pass: one action is one execution of the body *)
(* of `while c`, in any of the orders `for n in rem_nodes` may take.       *)
(***************************************************************************)
InitDomPass ==
    /\ NoThreads
    /\ registry = 0
    /\ cache = <<>>
    /\ lists = <<>>
    /\ cf = NoControlFlow
    /\ pc = "dominator_pass"
    /\ src = <<>>
    /\ result = NoResult
    /\ relinks = 0
    /\ \/ \E n \in 1..MaxDomNodes : \E par \in [0..(n - 1) -> PredSets(n)] :
              control_flow = GraphOf(par)
       \/ control_flow = Diamond
    /\ start \in DOMAIN control_flow
    /\ key \in {"parents", "children"}
    /\ dominator = initial_dominator(control_flow, start)

DominatorPass(order) ==
    /\ pc = "dominator_pass"
    /\ dominator' = dominator_pass(control_flow, key, dominator, order)
    /\ pc' = IF changed(control_flow, key, dominator, order)
             THEN "dominator_pass" ELSE "dominator"
    /\ UNCHANGED <<registry, cache, lists, cf, src, result, relinks, control_flow, start, key>>
    /\ UNCHANGED <<thrvars, sglvars, xpvars>>

NextDomPass == \E order \in iteration_order(DOMAIN control_flow \ {start}) : DominatorPass(order)

SpecDomPass == InitDomPass /\ [][NextDomPass]_vars /\ WF_vars(NextDomPass)

(***************************************************************************)
(* Two threads that each call generate_control_flow on a straight-line     *)
(* program of pass statements.  The threads share the class attributes     *)
(* ControlFlowRegistry.registry and ControlFlowRegistry.cache; a thread    *)
(* switch may fall between any two statements of register and of           *)
(* ControlFlowNode.__init__, between the load and the store of             *)
(* `cls.registry += 1`, and between two rounds of the loops over the cache *)
(* that follow the walk.  A node is written as its rid, the thread that    *)
(* created it and its number within that build; a cache entry also has its *)
(* place in the insertion order of the dict.  The parents and children     *)
(* lists are left out: with pass statements only, no step of a build       *)
(* depends on what they hold.                                              *)
(***************************************************************************)
MaxThreadStmts == 1

Threads == {1, 2}

\* The nodes the thread's build has registered so far.
MadeBy(t) == tlocal[t].made

\* The node a cache entry holds.
node_of(e) == [rid |-> e.rid, owner |-> e.owner, seq |-> e.seq]

\* The node is the one its thread is constructing and the construction is
\* at one of the given places.
under_construction(n, places) ==
    tlocal[n.owner].cur = n.seq /\ tpc[n.owner] \in places

\* hasattr(node, "parents"): set in line 34 of ControlFlowNode.__init__
has_parents(n) ==
    ~under_construction(n, {"node_rid", "cache_store", "registry_load", "registry_store",
                            "node_parents"})

\* hasattr(node, "ast_node"): set in line 35
has_ast_node(n) ==
    ~under_construction(n, {"node_rid", "cache_store", "registry_load", "registry_store",
                            "node_parents", "node_ast"})

\* hasattr(node, "calls"): set in line 38
has_calls(n) ==
    ~under_construction(n, {"node_rid", "cache_store", "registry_load", "registry_store",
                            "node_parents", "node_ast", "node_calls"})

\* node.source() of a node of a program of pass statements
thread_source(n) ==
    IF n.seq = 0 THEN "start"
    ELSE IF n.seq = tlocal[n.owner].total - 1 THEN "stop"
    ELSE "pass"

InitThreads ==
    /\ registry = 0
    /\ cache = <<>>
    /\ lists = <<>>
    /\ cf = NoControlFlow
    /\ pc = "threads"
    /\ src = <<>>
    /\ result = NoResult
    /\ relinks = 0
    /\ control_flow = <<>>
    /\ start = 0
    /\ key = "parents"
    /\ dominator = <<>>
    /\ instances = <<>>
    /\ lock = 0
    /\ created = <<>>
    /\ qlik = <<>>
    /\ jira = <<>>
    /\ tpc = [t \in Threads |-> "reset"]
    /\ \E k \in [Threads -> 0..MaxThreadStmts] :
          tlocal = [t \in Threads |->
                       [total |-> k[t] + 2, cur |-> 0, rid |-> -1, loaded |-> -1,
                        made |-> {}, it_len |-> -1, it_pos |-> -1,
                        copy |-> {}, returned |-> {}, err |-> NoErr]]

\* A step of a thread's build leaves everything else alone.
ThreadFrame == UNCHANGED <<lists, cf, pc, src, result, relinks, domvars, sglvars, xpvars>>

ThreadStep(t, from, to) ==
    /\ tpc[t] = from
    /\ tpc' = [tpc EXCEPT ![t] = to]
    /\ ThreadFrame

\* An exception leaves generate_control_flow: the thread's call returns
\* nothing.
ThreadRaise(t, err) ==
    /\ tpc' = [tpc EXCEPT ![t] = "raised"]
    /\ tlocal' = [tlocal EXCEPT ![t].err = err, ![t].it_len = -1, ![t].it_pos = -1]
    /\ UNCHANGED <<registry, cache>>
    /\ ThreadFrame

\* ControlFlowRegistry.reset()
ThreadReset(t) ==
    /\ ThreadStep(t, "reset", "node_rid")
    /\ UNCHANGED <<registry, cache, tlocal>>

\* node.rid = cls.registry
ThreadNodeRid(t) ==
    /\ ThreadStep(t, "node_rid", "cache_store")
    /\ tlocal' = [tlocal EXCEPT ![t].rid = registry]
    /\ UNCHANGED <<registry, cache>>

\* cls.cache[node.rid] = node: a key the dict has keeps its place
ThreadCacheStore(t) ==
    /\ ThreadStep(t, "cache_store", "registry_load")
    /\ cache' = (tlocal[t].rid :>
                    [rid |-> tlocal[t].rid, owner |-> t, seq |-> tlocal[t].cur,
                     pos |-> IF tlocal[t].rid \in DOMAIN cache
                             THEN cache[tlocal[t].rid].pos
                             ELSE Cardinality(DOMAIN cache)]) @@ cache
    /\ UNCHANGED <<registry, tlocal>>

\* cls.registry += 1: the load
ThreadRegistryLoad(t) ==
    /\ ThreadStep(t, "registry_load", "registry_store")
    /\ tlocal' = [tlocal EXCEPT ![t].loaded = registry]
    /\ UNCHANGED <<registry, cache>>

\* cls.registry += 1: the store; the node is registered.
ThreadRegistryStore(t) ==
    /\ ThreadStep(t, "registry_store", "node_parents")
    /\ registry' = tlocal[t].loaded + 1
    /\ tlocal' = [tlocal EXCEPT
                     ![t].made = @ \cup {[rid |-> tlocal[t].rid, owner |-> t,
                                          seq |-> tlocal[t].cur]}]
    /\ UNCHANGED cache

\* self.parents = ... or []
ThreadNodeParents(t) ==
    /\ ThreadStep(t, "node_parents", "node_ast")
    /\ UNCHANGED <<registry, cache, tlocal>>

\* self.ast_node = ast
ThreadNodeAst(t) ==
    /\ ThreadStep(t, "node_ast", "node_calls")
    /\ UNCHANGED <<registry, cache, tlocal>>

\* self.update_children(parents); self.children = []; self.calls = []: the
\* node is complete.  After the stop node the loops over the cache follow.
ThreadNodeCalls(t) ==
    /\ tpc[t] = "node_calls"
    /\ tpc' = [tpc EXCEPT ![t] = IF tlocal[t].cur + 1 = tlocal[t].total
                                 THEN "update_children" ELSE "node_rid"]
    /\ tlocal' = [tlocal EXCEPT ![t].cur = @ + 1]
    /\ UNCHANGED <<registry, cache>>
    /\ ThreadFrame

\* The entry at a place of the insertion order of the dict.
entry_at(pos) == cache[CHOOSE k \in DOMAIN cache : cache[k].pos = pos]

\* The nodes in the cache.
cached == {node_of(cache[k]) : k \in DOMAIN cache}

\* One step of `for nid, node in ControlFlowRegistry.cache.items()` whose
\* body reads an attribute of node that the nodes of `without` do not have
\* yet: the iterator is made, or it is asked for the next item, which fails
\* when the dict has changed its size, ends the loop after the last item,
\* and otherwise runs the body.
pass_step(t, without, next) ==
    IF tlocal[t].it_pos = -1
    THEN /\ tlocal' = [tlocal EXCEPT ![t].it_len = Cardinality(DOMAIN cache), ![t].it_pos = 0]
         /\ UNCHANGED <<registry, cache, tpc>>
         /\ ThreadFrame
    ELSE IF tlocal[t].it_len # Cardinality(DOMAIN cache)
    THEN ThreadRaise(t, "RuntimeError")
    ELSE IF tlocal[t].it_pos = tlocal[t].it_len
    THEN /\ tlocal' = [tlocal EXCEPT ![t].it_len = -1, ![t].it_pos = -1]
         /\ tpc' = [tpc EXCEPT ![t] = next]
         /\ UNCHANGED <<registry, cache>>
         /\ ThreadFrame
    ELSE IF node_of(entry_at(tlocal[t].it_pos)) \in without
    THEN ThreadRaise(t, "AttributeError")
    ELSE /\ tlocal' = [tlocal EXCEPT ![t].it_pos = @ + 1]
         /\ UNCHANGED <<registry, cache, tpc>>
         /\ ThreadFrame

\* ControlFlow.update_children: for p in node.parents: p.add_child(node)
ThreadUpdateChildren(t) ==
    /\ tpc[t] = "update_children"
    /\ pass_step(t, {n \in cached : ~has_parents(n)}, "update_functions")

\* ControlFlow.update_functions: get_defining_function(node) reads
\* node.lineno(), that is node.ast_node
ThreadUpdateFunctions(t) ==
    /\ tpc[t] = "update_functions"
    /\ pass_step(t, {n \in cached : ~has_ast_node(n)}, "link_functions")

\* ControlFlow.link_functions: if node.calls
ThreadLinkFunctions(t) ==
    /\ tpc[t] = "link_functions"
    /\ pass_step(t, {n \in cached : ~has_calls(n)}, "copy")

\* cache = dict(ControlFlowRegistry.cache)
ThreadCopy(t) ==
    /\ ThreadStep(t, "copy", "return")
    /\ tlocal' = [tlocal EXCEPT ![t].copy = cached]
    /\ UNCHANGED <<registry, cache>>

\* The filter on start and stop, which reads source() and with it ast_node
\* of every node of the copy, and the return.
ThreadReturn(t, remove_start_stop) ==
    /\ tpc[t] = "return"
    /\ IF remove_start_stop /\ \E n \in tlocal[t].copy : ~has_ast_node(n)
       THEN ThreadRaise(t, "AttributeError")
       ELSE /\ tpc' = [tpc EXCEPT ![t] = "done"]
            /\ tlocal' = [tlocal EXCEPT ![t].returned =
                             IF remove_start_stop
                             THEN {n \in tlocal[t].copy :
                                      thread_source(n) \notin {"start", "stop"}}
                             ELSE tlocal[t].copy]
            /\ UNCHANGED <<registry, cache>>
            /\ ThreadFrame

NextThreads ==
    \/ \E t \in Threads : ThreadReset(t)
    \/ \E t \in Threads : ThreadNodeRid(t)
    \/ \E t \in Threads : ThreadCacheStore(t)
    \/ \E t \in Threads : ThreadRegistryLoad(t)
    \/ \E t \in Threads : ThreadRegistryStore(t)
    \/ \E t \in Threads : ThreadNodeParents(t)
    \/ \E t \in Threads : ThreadNodeAst(t)
    \/ \E t \in Threads : ThreadNodeCalls(t)
    \/ \E t \in Threads : ThreadUpdateChildren(t)
    \/ \E t \in Threads : ThreadUpdateFunctions(t)
    \/ \E t \in Threads : ThreadLinkFunctions(t)
    \/ \E t \in Threads : ThreadCopy(t)
    \/ \E t \in Threads, remove_start_stop \in BOOLEAN : ThreadReturn(t, remove_start_stop)

SpecThreads == InitThreads /\ [][NextThreads]_vars

(***************************************************************************)
(* Singleton.__call__ called by two threads.  _instances and _lock are     *)
(* attributes of the metaclass, shared by all its classes.  An instance is *)
(* written as its class and the number of the construction that made it;   *)
(* created counts the constructions of a class that completed.  A thread   *)
(* switch may fall between any two steps.                                  *)
(***************************************************************************)
MaxCalls == 2

Classes == {"Environment", "SingletonClass"}

\* The mutant of the test under the lock: the instance is always built.
locked_check_skipped(inst, cls) == TRUE

\* if cls not in cls._instances, under the lock
locked_check(inst, cls) == cls \notin DOMAIN inst

InitSingleton ==
    /\ registry = 0
    /\ cache = <<>>
    /\ lists = <<>>
    /\ cf = NoControlFlow
    /\ pc = "singleton"
    /\ src = <<>>
    /\ result = NoResult
    /\ relinks = 0
    /\ control_flow = <<>>
    /\ start = 0
    /\ key = "parents"
    /\ dominator = <<>>
    /\ instances = <<>>
    /\ lock = 0
    /\ qlik = <<>>
    /\ jira = <<>>
    /\ created = [c \in Classes |-> 0]
    /\ tpc = [t \in Threads |-> "idle"]
    /\ tlocal = [t \in Threads |-> [cls |-> "", calls |-> 0, new |-> 0, returned |-> {},
                                     outer |-> "", nested |-> FALSE]]

SingletonFrame == UNCHANGED <<cfgvars, domvars, xpvars>>

SingletonStep(t, from, to) ==
    /\ tpc[t] = from
    /\ tpc' = [tpc EXCEPT ![t] = to]
    /\ SingletonFrame

\* cls(*args, **kwargs): the thread enters Singleton.__call__
SingletonCall(t, cls) ==
    /\ tlocal[t].calls < MaxCalls
    /\ SingletonStep(t, "idle", "check")
    /\ tlocal' = [tlocal EXCEPT ![t].cls = cls, ![t].calls = @ + 1,
                                ![t].outer = "", ![t].nested = FALSE]
    /\ UNCHANGED sglvars

\* if cls not in cls._instances
SingletonCheck(t) ==
    /\ tpc[t] = "check"
    /\ tpc' = [tpc EXCEPT ![t] = IF tlocal[t].cls \notin DOMAIN instances
                                  THEN "acquire" ELSE "return"]
    /\ SingletonFrame
    /\ UNCHANGED <<tlocal, sglvars>>

\* with cls._lock: the thread waits until the lock is free
SingletonAcquire(t) ==
    /\ lock = 0
    /\ SingletonStep(t, "acquire", "check_locked")
    /\ lock' = t
    /\ UNCHANGED <<tlocal, instances, created>>

\* if cls not in cls._instances, under the lock
SingletonCheckLocked(t) ==
    /\ tpc[t] = "check_locked"
    /\ tpc' = [tpc EXCEPT ![t] = IF locked_check(instances, tlocal[t].cls)
                                  THEN "create" ELSE "release"]
    /\ SingletonFrame
    /\ UNCHANGED <<tlocal, sglvars>>

\* super(Singleton, cls).__call__(*args, **kwargs) returns the new instance
SingletonCreate(t) ==
    /\ SingletonStep(t, "create", "store")
    /\ created' = [created EXCEPT ![tlocal[t].cls] = @ + 1]
    /\ tlocal' = [tlocal EXCEPT ![t].new = created[tlocal[t].cls] + 1]
    /\ UNCHANGED <<instances, lock>>

\* super(Singleton, cls).__call__(*args, **kwargs) raises: the with
\* statement releases the lock and the call ends with the exception
SingletonCreateRaises(t) ==
    /\ SingletonStep(t, "create", "idle")
    /\ lock' = 0
    /\ UNCHANGED <<tlocal, instances, created>>

\* cls._instances[cls] = ...
SingletonStore(t) ==
    /\ SingletonStep(t, "store", "release")
    /\ instances' = (tlocal[t].cls :> tlocal[t].new) @@ instances
    /\ UNCHANGED <<tlocal, lock, created>>

\* the end of the with statement
SingletonRelease(t) ==
    /\ SingletonStep(t, "release", "return")
    /\ lock' = 0
    /\ UNCHANGED <<tlocal, instances, created>>

\* The initializer that super().__call__ runs calls the constructor of
\* another class of the metaclass: the thread enters Singleton.__call__
\* again, with the lock of the outer call still held.
SingletonInitCalls(t, cls) ==
    /\ tlocal[t].outer = ""
    /\ ~tlocal[t].nested
    /\ cls # tlocal[t].cls
    /\ SingletonStep(t, "create", "check")
    /\ tlocal' = [tlocal EXCEPT ![t].outer = tlocal[t].cls, ![t].cls = cls,
                                ![t].nested = TRUE]
    /\ UNCHANGED sglvars

\* return cls._instances[cls] of the inner call: the initializer goes on
SingletonInitReturn(t) ==
    /\ tlocal[t].outer # ""
    /\ SingletonStep(t, "return", "create")
    /\ tlocal' = [tlocal EXCEPT ![t].returned =
                     @ \cup {<<tlocal[t].cls, instances[tlocal[t].cls]>>},
                                ![t].cls = tlocal[t].outer, ![t].outer = ""]
    /\ UNCHANGED sglvars

\* return cls._instances[cls]
SingletonReturn(t) ==
    /\ tlocal[t].outer = ""
    /\ SingletonStep(t, "return", "idle")
    /\ tlocal' = [tlocal EXCEPT ![t].returned =
                     @ \cup {<<tlocal[t].cls, instances[tlocal[t].cls]>>}]
    /\ UNCHANGED sglvars

NextSingleton ==
    \E t \in Threads :
        \/ \E cls \in Classes : SingletonCall(t, cls)
        \/ SingletonCheck(t)
        \/ SingletonAcquire(t)
        \/ SingletonCheckLocked(t)
        \/ SingletonCreate(t)
        \/ SingletonCreateRaises(t)
        \/ \E cls \in Classes : SingletonInitCalls(t, cls)
        \/ SingletonInitReturn(t)
        \/ SingletonStore(t)
        \/ SingletonRelease(t)
        \/ SingletonReturn(t)

SpecSingleton == InitSingleton /\ [][NextSingleton]_vars

(***************************************************************************)
(* Qlik.reload_app (src/spycery/xparty/qlik.py).  qlik.ws is the state of  *)
(* the websocket, qlik.temps the number of temp_app_<uuid>.qvf files in    *)
(* the app folder, qlik.newfilename whether the call works on such a copy. *)
(* The server answers every request with a result or with an error.        *)
(***************************************************************************)
MaxReloads == 2

\* if newfilename is not None: os.remove(newfilename)
remove_copy(q) == IF q.newfilename THEN [q EXCEPT !.temps = @ - 1] ELSE q

\* self.close(): the socket object stays in self.ws
close(q) == IF q.ws # "none" THEN [q EXCEPT !.ws = "closed"] ELSE q

\* self.close(); return False
reload_failed(q) == [close(q) EXCEPT !.pc = "idle", !.ret = "False"]

\* A request that is answered with an error ends the call; otherwise the
\* call goes on to the next request.
reload_step(q, error, next) == IF error THEN reload_failed(q) ELSE [q EXCEPT !.pc = next]

InitQlik ==
    /\ registry = 0
    /\ cache = <<>>
    /\ lists = <<>>
    /\ cf = NoControlFlow
    /\ pc = "qlik"
    /\ src = <<>>
    /\ result = NoResult
    /\ relinks = 0
    /\ control_flow = <<>>
    /\ start = 0
    /\ key = "parents"
    /\ dominator = <<>>
    /\ tpc = <<>>
    /\ tlocal = <<>>
    /\ instances = <<>>
    /\ lock = 0
    /\ created = <<>>
    /\ jira = <<>>
    /\ qlik = [pc |-> "idle", ws |-> "none", temps |-> 0, newfilename |-> FALSE,
               outfilename |-> "", appfolder |-> "", handle |-> -1,
               calls |-> 0, ret |-> "none"]

QlikFrame == UNCHANGED <<cfgvars, domvars, thrvars, sglvars, jira>>

\* Qlik.connect(): a new socket in self.ws, or self.ws as it was and {}
\* when the connection is refused
QlikConnect(refused) ==
    /\ qlik.pc = "idle"
    /\ qlik' = IF refused THEN [qlik EXCEPT !.ret = "{}"]
               ELSE [qlik EXCEPT !.ws = "open", !.ret = "response"]
    /\ QlikFrame

\* Qlik.close()
QlikClose ==
    /\ qlik.pc = "idle"
    /\ qlik' = [close(qlik) EXCEPT !.ret = "None"]
    /\ QlikFrame

\* reload_app(filename, outfilename): self.close()
ReloadApp(with_path, outfilename) ==
    /\ qlik.pc = "idle"
    /\ qlik.calls < MaxReloads
    /\ qlik' = [close(qlik) EXCEPT !.pc = "connect", !.calls = @ + 1, !.ret = "none",
                                   !.newfilename = with_path,
                                   !.outfilename = outfilename]
    /\ QlikFrame

\* self.ws = create_connection(self.base_url); response = self.ws.recv()
ReloadConnect(refused) ==
    /\ qlik.pc = "connect"
    /\ qlik' = IF refused THEN [qlik EXCEPT !.pc = "idle", !.ret = "False"]
               ELSE [qlik EXCEPT !.pc = "default_folder", !.ws = "open", !.handle = -1]
    /\ QlikFrame

\* appfolder = "." if response.get("error") is not None else qPath
app_folder(q, error) == [q EXCEPT !.appfolder = IF error THEN "." ELSE "qPath"]

\* shutil.copyfile(filename, newfilename) for a filename with a path.  When
\* the file is missing or the app folder cannot be written, copyfile
\* raises and the exception leaves reload_app: no copy, no close.
copy_app(q, copy_fails) ==
    IF ~q.newfilename THEN [q EXCEPT !.pc = "open_doc"]
    ELSE IF copy_fails
    THEN [q EXCEPT !.outfilename = IF @ = "" THEN "filename" ELSE @,
                   !.pc = "idle", !.ret = "FileNotFoundError"]
    ELSE [q EXCEPT !.temps = @ + 1, !.outfilename = IF @ = "" THEN "filename" ELSE @,
                   !.pc = "open_doc"]

\* GetDefaultAppFolder, and the copy of a file given with a path
ReloadGetDefaultAppFolder(error, copy_fails) ==
    /\ qlik.pc = "default_folder"
    /\ copy_fails => qlik.newfilename
    /\ qlik' = copy_app(app_folder(qlik, error), copy_fails)
    /\ QlikFrame

ReloadOpenDoc(error) ==
    /\ qlik.pc = "open_doc"
    /\ qlik' = reload_step(qlik, error, "active_doc")
    /\ QlikFrame

ReloadGetActiveDoc(error) ==
    /\ qlik.pc = "active_doc"
    /\ qlik' = reload_step(IF error THEN qlik ELSE [qlik EXCEPT !.handle = 1], error, "reload")
    /\ QlikFrame

ReloadDoReload(error) ==
    /\ qlik.pc = "reload"
    /\ qlik' = reload_step(qlik, error, "save")
    /\ QlikFrame

\* DoSave, and on success the removal of the copy, close and return True
ReloadDoSave(error) ==
    /\ qlik.pc = "save"
    /\ qlik' = IF error THEN reload_failed(qlik)
               ELSE [close(remove_copy(qlik)) EXCEPT !.pc = "idle", !.ret = "True"]
    /\ QlikFrame

NextQlik ==
    \/ \E with_path \in BOOLEAN, outfilename \in {"", "out.qvf"} : ReloadApp(with_path, outfilename)
    \/ \E refused \in BOOLEAN : ReloadConnect(refused)
    \/ \E error \in BOOLEAN, copy_fails \in BOOLEAN : ReloadGetDefaultAppFolder(error, copy_fails)
    \/ \E error \in BOOLEAN : ReloadOpenDoc(error)
    \/ \E error \in BOOLEAN : ReloadGetActiveDoc(error)
    \/ \E error \in BOOLEAN : ReloadDoReload(error)
    \/ \E error \in BOOLEAN : ReloadDoSave(error)
    \/ \E refused \in BOOLEAN : QlikConnect(refused)
    \/ QlikClose

SpecQlik == InitQlik /\ [][NextQlik]_vars

(***************************************************************************)
(* Jira.get_all_issues (src/spycery/xparty/jira.py).  A response is what   *)
(* get_issues returns: the dictionary of _make_request, here a record with *)
(* the error flag and the issues of the page.  An                          *)
(* issue is named by the request that returned it and its place in the     *)
(* page.  jira.pages keeps the pages in the order they were returned.      *)
(***************************************************************************)
MaxTotal == 4

MaxRequests == 4

issues_per_page == 1000

Min(a, b) == IF a < b THEN a ELSE b

\* result.get("issues", [])
result_issues(response) == IF response.error THEN <<>> ELSE response.issues

\* count=min(issues_per_page, number_of_issues - i)
page_count(j) == Min(issues_per_page, j.total - j.i)

\* The body of the while loop, and the test of the next round.
page(j, response) ==
    [j EXCEPT !.issues = @ \o result_issues(response),
              !.i = @ + Len(result_issues(response)),
              !.pages = Append(@, result_issues(response)),
              !.requests = @ + 1,
              !.pc = IF j.i + Len(result_issues(response)) < j.total THEN "page" ELSE "done"]

\* What the server answers to the request number r: an error, or a page
\* of k issues.
Response(r, error, k) ==
    [error |-> error, issues |-> IF error THEN <<>> ELSE [p \in 1..k |-> <<r, p>>]]

InitJira ==
    /\ registry = 0
    /\ cache = <<>>
    /\ lists = <<>>
    /\ cf = NoControlFlow
    /\ pc = "jira"
    /\ src = <<>>
    /\ result = NoResult
    /\ relinks = 0
    /\ control_flow = <<>>
    /\ start = 0
    /\ key = "parents"
    /\ dominator = <<>>
    /\ tpc = <<>>
    /\ tlocal = <<>>
    /\ instances = <<>>
    /\ lock = 0
    /\ created = <<>>
    /\ qlik = <<>>
    /\ jira = [pc |-> "idle", total |-> 0, i |-> 0, issues |-> <<>>, pages |-> <<>>,
               requests |-> 0]

JiraFrame == UNCHANGED <<cfgvars, domvars, thrvars, sglvars, qlik>>

\* number_of_issues = self.get_issues(...)["total"]; issues = []; i = 0
JiraTotal(error, total) ==
    /\ jira.pc = "idle"
    /\ jira' = IF error THEN [jira EXCEPT !.pc = "KeyError"]
               ELSE [jira EXCEPT !.total = total,
                                 !.pc = IF 0 < total THEN "page" ELSE "done"]
    /\ JiraFrame

\* One round of `while i < number_of_issues`: the server answers with an
\* error or with at most the requested number of issues.
JiraPage(error, k) ==
    /\ jira.pc = "page"
    /\ jira.requests < MaxRequests
    /\ k <= page_count(jira)
    /\ jira' = page(jira, Response(jira.requests + 1, error, k))
    /\ JiraFrame

NextJira ==
    \/ \E error \in BOOLEAN, total \in 0..MaxTotal : JiraTotal(error, total)
    \/ \E error \in BOOLEAN, k \in 0..MaxTotal : JiraPage(error, k)

SpecJira == InitJira /\ [][NextJira]_vars

(***************************************************************************)
(* Properties.                                                             *)
(***************************************************************************)
Nodes == DOMAIN cache

parents_of(n) == lists[cache[n].parents]

children_of(n) == cache[n].children

\* The nodes the current ControlFlow object created.
BuildNodes == {n \in Nodes : n >= cf.founder}

\* The build has run walk, update_children, update_functions and
\* link_functions and is about to return the graph.
Finished == pc = "return"

Occurrences(s, x) == Cardinality({i \in DOMAIN s : s[i] = x})

\* C1: in the graph left by a finished build, children is the exact inverse
\* of parents: c is in p.children if and only if p is in c.parents.
C1_ChildrenInverseOfParents ==
    Finished =>
        \A p \in Nodes : \A c \in Nodes :
            (c \in Range(children_of(p))) <=> (p \in Range(parents_of(c)))

\* C2: the mapping a call of generate_control_flow returns contains only
\* nodes created during that call.
C2_ResultHoldsOnlyNodesOfThisBuild ==
    result.status = "returned" => \A k \in result.keys : k >= cf.founder

\* The nodes reachable from s along the predecessor relation k without
\* passing through the node avoid: n is reached from p when p is in g[n][k].
RECURSIVE ReachFrom(_, _, _, _)
ReachFrom(g, k, seen, avoid) ==
    LET more == {n \in DOMAIN g : n # avoid /\ n \notin seen /\ g[n][k] \cap seen # {}}
    IN IF more = {} THEN seen ELSE ReachFrom(g, k, seen \cup more, avoid)

Reachable(g, s, k) == ReachFrom(g, k, {s}, -1)

\* d dominates n when every path from s to n passes through d.
Dominates(g, s, k, d, n) ==
    d = n \/ d = s \/ n \notin ReachFrom(g, k, {s}, d)

Dominators(g, s, k, n) == {d \in DOMAIN g : Dominates(g, s, k, d, n)}

\* C3: for every node n reachable from start, compute_dominator returns
\* exactly the set of nodes that every path from start to n passes through.
C3_DominatorSetsAreExact ==
    pc = "dominator" =>
        \A n \in Reachable(control_flow, start, key) :
            dominator[n] = Dominators(control_flow, start, key, n)

TypeOK == registry \in Nat

\* The nodes of this build whose calls name f, and the number of calls of f
\* this build recorded.
CallNodes(f) == {n \in BuildNodes : f \in Range(cache[n].calls)}

CallsOf(f) ==
    Cardinality(UNION {{<<n, i>> : i \in {j \in DOMAIN cache[n].calls : cache[n].calls[j] = f}}
                          : n \in BuildNodes})

\* The build is finished, its program defines f and calls f exactly once.
DefinesAndCallsOnce(f) ==
    Finished /\ f \in DOMAIN cf.functions /\ CallsOf(f) = 1

\* C4 as stated: after link_functions the call node has f's enter node as a
\* parent, and every child of the call node has f's exit node as a parent.
C4_EnterIsParentOfCallNode ==
    DefinesAndCallsOnce("f") =>
        \A c \in CallNodes("f") :
            /\ cf.functions["f"][1] \in Range(parents_of(c))
            /\ \A ch \in Range(children_of(c)) :
                   cf.functions["f"][2] \in Range(parents_of(ch))

\* C4 amended: after link_functions the call node is a parent of f's enter
\* node, and every child of the call node has f's exit node as a parent.
C4_CallNodeIsParentOfEnter ==
    DefinesAndCallsOnce("f") =>
        \A c \in CallNodes("f") :
            /\ c \in Range(parents_of(cf.functions["f"][1]))
            /\ \A ch \in Range(children_of(c)) :
                   cf.functions["f"][2] \in Range(parents_of(ch))

\* A finished build of a program that defines f and calls it once from a
\* node outside f that has a child: both edges of the linker are present.
C4_Witness ==
    /\ DefinesAndCallsOnce("f")
    /\ \E c \in CallNodes("f") :
          /\ children_of(c) # <<>>
          /\ cf.functions["f"][1] \notin Range(parents_of(c))
          /\ c \in Range(parents_of(cf.functions["f"][1]))
          /\ \A ch \in Range(children_of(c)) :
                 cf.functions["f"][2] \in Range(parents_of(ch))

\* C5: a further run of link_functions on a linked graph leaves every
\* node's parents list as it was.
C5_LinkFunctionsIdempotent ==
    [][(pc = "return" /\ relinks' = relinks + 1) =>
          /\ DOMAIN cache' = DOMAIN cache
          /\ \A n \in Nodes : lists'[cache'[n].parents] = lists[cache[n].parents]]_vars

\* link_functions has run again on a graph in which a call is linked: the
\* call node is a parent of the enter node and has been counted twice.
C5_Witness ==
    /\ pc = "return"
    /\ relinks >= 1
    /\ "f" \in DOMAIN cf.functions
    /\ \E c \in CallNodes("f") :
          /\ cache[c].calllink >= 2
          /\ c \in Range(parents_of(cf.functions["f"][1]))
          /\ \E ch \in Range(children_of(c)) :
                 cf.functions["f"][2] \in Range(parents_of(ch))

\* The program being built, with its line numbers.
Program == parse(src).body

\* The walk of the program is over and the build has not returned yet.
Walked == pc \in {"update_children", "update_functions", "link_functions", "return"}

\* The node this build created for the statement s: the test node for a
\* loop or an if.
NodeAst(k) ==
    IF k = "while" THEN "_while"
    ELSE IF k = "if" THEN "_if"
    ELSE IF k = "for" THEN "_for"
    ELSE k

StmtNode(s) ==
    CHOOSE n \in BuildNodes : cache[n].lineno = s.lineno /\ cache[n].ast = NodeAst(s.k)

\* The lines of the break statements of a loop body that belong to the
\* loop: those not inside a nested loop or function.
RECURSIVE OwnBreaks(_)
OwnBreaks(block) ==
    IF block = <<>> THEN {}
    ELSE LET s == Head(block)
         IN (IF s.k = "break" THEN {s.lineno}
             ELSE IF s.k = "if" THEN OwnBreaks(s.body) \cup OwnBreaks(s.orelse)
             ELSE {})
            \cup OwnBreaks(Tail(block))

\* A while loop with exactly one break of its own, followed by a statement.
LoopWithOneBreak ==
    /\ Walked
    /\ Len(src) = 2
    /\ src[1].k = "while"
    /\ src[2].k = "pass"
    /\ Cardinality(OwnBreaks(Program[1].body)) = 1

\* C6: for a while loop whose body holds exactly one break of its own,
\* followed by a statement, after the walk the exit list of the loop-test
\* node is exactly the break node, and the break node is a parent of the
\* node of the following statement.
C6_OneBreakIsTheExit ==
    LoopWithOneBreak =>
        \E b \in BuildNodes :
            /\ cache[b].ast = "break"
            /\ cache[b].lineno \in OwnBreaks(Program[1].body)
            /\ cache[StmtNode(Program[1])].exit_nodes = <<b>>
            /\ b \in Range(parents_of(StmtNode(Program[2])))

\* A block creates a node of its own when it holds a statement other than
\* a function definition.
HasFlow(block) == \E i \in DOMAIN block : block[i].k # "functiondef"

\* The node of the first statement of a block that is not a function
\* definition.
RECURSIVE FirstNode(_)
FirstNode(block) ==
    IF Head(block).k = "functiondef" THEN FirstNode(Tail(block))
    ELSE StmtNode(Head(block))

\* The nodes a block ends in: the node of its last statement, for an if the
\* nodes its branches end in, and the nodes above when the block creates
\* no node; nothing after break, continue and return.
RECURSIVE EndNodes(_, _)
EndNodes(block, above) ==
    IF block = <<>> THEN above
    ELSE LET s == block[Len(block)]
         IN IF s.k = "functiondef" THEN EndNodes(SubSeq(block, 1, Len(block) - 1), above)
            ELSE IF s.k = "if"
            THEN EndNodes(s.body, {StmtNode(s)}) \cup EndNodes(s.orelse, {StmtNode(s)})
            ELSE IF s.k \in {"break", "continue", "return"} THEN {}
            ELSE {StmtNode(s)}

\* An if with a body and an else branch that both create nodes, followed by
\* a statement.
IfElseThenStmt ==
    /\ Walked
    /\ Len(src) = 2
    /\ src[1].k = "if"
    /\ src[2].k = "pass"
    /\ HasFlow(src[1].body)
    /\ HasFlow(src[1].orelse)

\* C7: for `if cond: a else: b` followed by a statement s, the nodes a ends
\* in and the nodes b ends in are parents of the node of s, and the children
\* of the if-test node are the first node of a, then the first node of b.
C7_IfElseJoinsAtNextStatement ==
    IfElseThenStmt =>
        /\ EndNodes(Program[1].body, {}) # {}
        /\ EndNodes(Program[1].orelse, {}) # {}
        /\ EndNodes(Program[1].body, {}) \subseteq Range(parents_of(StmtNode(Program[2])))
        /\ EndNodes(Program[1].orelse, {}) \subseteq Range(parents_of(StmtNode(Program[2])))
        /\ children_of(StmtNode(Program[1])) =
               <<FirstNode(Program[1].body), FirstNode(Program[1].orelse)>>

\* A finished build of an if whose body ends in a loop and whose else branch
\* is one statement: three nodes meet the claim.
C7_Witness ==
    /\ IfElseThenStmt
    /\ pc = "return"
    /\ Program[1].body[Len(Program[1].body)].k = "while"
    /\ children_of(StmtNode(Program[1])) =
           <<FirstNode(Program[1].body), FirstNode(Program[1].orelse)>>
    /\ EndNodes(Program[1].body, {}) \cup EndNodes(Program[1].orelse, {})
           \subseteq Range(parents_of(StmtNode(Program[2])))

\* A program that is a sequence of simple statements.
StraightLine ==
    \A i \in DOMAIN src :
        src[i].k \in {"pass", "expr", "assign", "augassign", "annassign"}

\* C8: the graph returned for a straight-line program of k simple
\* statements has k + 2 nodes, start has no parent and every other node has
\* exactly one parent, the node created just before it.
C8_StraightLineIsAChain ==
    (Finished /\ StraightLine) =>
        /\ Cardinality(Nodes) = Len(src) + 2
        /\ \A n \in Nodes :
               parents_of(n) = IF n = cf.founder THEN <<>> ELSE <<n - 1>>

\* C9: in the graph of a finished build no node is its own parent and no
\* node is its own child.
C9_NoSelfEdge ==
    Finished =>
        \A n \in Nodes :
            n \notin Range(parents_of(n)) /\ n \notin Range(children_of(n))

\* C10: in the graph of a finished build no parents list holds the same
\* node twice.
C10_NoDuplicateParent ==
    Finished =>
        \A c \in Nodes : \A p \in Nodes : Occurrences(parents_of(c), p) <= 1

\* C11: every node that is not reachable from start has the set of all
\* nodes of the graph as its dominator set.
C11_UnreachableKeepUniversalSet ==
    pc = "dominator" =>
        \A n \in DOMAIN control_flow \ Reachable(control_flow, start, key) :
            dominator[n] = DOMAIN control_flow

\* C12: across the passes no set grows, every set holds its own node, the
\* loop goes on exactly while a pass changes a set, and it ends.
C12_DominatorLoopTerminates ==
    /\ [][pc = "dominator_pass" =>
             /\ \A n \in DOMAIN dominator : dominator'[n] \subseteq dominator[n]
             /\ (pc' = "dominator") <=> (dominator' = dominator)]_vars
    /\ [](\A n \in DOMAIN dominator : n \in dominator[n])
    /\ <>(pc = "dominator")

\* The loop is between two passes: a pass has shrunk a set and the next
\* pass will shrink one again.
C12_Witness ==
    /\ pc = "dominator_pass"
    /\ dominator # initial_dominator(control_flow, start)
    /\ \E order \in iteration_order(DOMAIN control_flow \ {start}) :
          changed(control_flow, key, dominator, order)

\* C13: whatever order the nodes are visited in within each pass, the loop
\* ends with the mapping compute_dominator returns for the graph.
C13_DominatorResultIndependentOfOrder ==
    pc = "dominator" =>
        \A order \in iteration_order(DOMAIN control_flow \ {start}) :
            dominator = compute_dominator(control_flow, start, key, order)

\* The loop has ended on a graph on which the first pass gives different
\* mappings for two visiting orders.
C13_Witness ==
    /\ pc = "dominator"
    /\ \A order \in iteration_order(DOMAIN control_flow \ {start}) :
           dominator = compute_dominator(control_flow, start, key, order)
    /\ \E o1, o2 \in iteration_order(DOMAIN control_flow \ {start}) :
          dominator_pass(control_flow, key, initial_dominator(control_flow, start), o1) #
              dominator_pass(control_flow, key, initial_dominator(control_flow, start), o2)

\* A block holds a statement the walker has no rule for: a statement kind
\* without a handler, or an assignment to several targets.
RECURSIVE HasUnsupported(_)
HasUnsupported(block) ==
    \E i \in DOMAIN block :
        \/ block[i].k = "import"
        \/ block[i].k = "assign" /\ block[i].ntargets > 1
        \/ HasUnsupported(block[i].body)
        \/ HasUnsupported(block[i].orelse)

\* C14: a program with an unsupported construct never gets past the walk:
\* the build fails and no graph is returned for it.
C14_UnsupportedConstructFails ==
    Walked => ~HasUnsupported(src)

\* A block holds a break or continue that no loop encloses, or a return
\* that no function encloses.
RECURSIVE HasStray(_, _, _)
HasStray(block, loop, fn) ==
    \E i \in DOMAIN block :
        \/ block[i].k \in {"break", "continue"} /\ ~loop
        \/ block[i].k = "return" /\ ~fn
        \/ block[i].k = "if" /\ (HasStray(block[i].body, loop, fn)
                                  \/ HasStray(block[i].orelse, loop, fn))
        \/ block[i].k \in {"while", "for"} /\ HasStray(block[i].body, TRUE, fn)
        \/ block[i].k = "functiondef" /\ HasStray(block[i].body, FALSE, TRUE)

\* C15: a program with a break or continue outside every loop, or a return
\* outside every function, never gets past the walk.
C15_StrayJumpFails ==
    Walked => ~HasStray(src, FALSE, FALSE)

\* The nodes with a call of a registered function.
ResolvedCallers(f) == {n \in Nodes : f \in Range(cache[n].calls)}

\* C16: link_functions adds a parent edge only for a call of a registered
\* name (the caller above enter, exit above a child of the caller), leaves
\* children as they are, and ends without an error when no call is of a
\* registered name; so a node whose calls are all unregistered becomes the
\* parent of no enter node and its link count stays 0.
C16_UnresolvedCallsAreLeftAlone ==
    [][pc = "link_functions" =>
          /\ \A c \in Nodes : cache'[c].children = cache[c].children
          /\ \A c \in Nodes : \A p \in Range(lists'[cache'[c].parents]) :
                 \/ p \in Range(parents_of(c))
                 \/ \E f \in DOMAIN cf.functions :
                        \/ c = cf.functions[f][1] /\ p \in ResolvedCallers(f)
                        \/ /\ p = cf.functions[f][2]
                           /\ \E n \in ResolvedCallers(f) : c \in Range(children_of(n))
          /\ \A n \in Nodes :
                 (\A f \in DOMAIN cf.functions : n \notin ResolvedCallers(f)) =>
                     cache'[n].calllink = cache[n].calllink
          /\ (\A f \in DOMAIN cf.functions : ResolvedCallers(f) = {}) =>
                 (pc' = "return" /\ lists' = lists)]_vars

\* A linked graph of a program with a call that is resolved and a node
\* whose only call is of an unregistered name: that node has a child, is
\* above no enter node and its link count is 0.
C16_Witness ==
    /\ pc = "return"
    /\ \E f \in DOMAIN cf.functions : ResolvedCallers(f) \cap BuildNodes # {}
    /\ \E n \in BuildNodes :
          /\ cache[n].calls # <<>>
          /\ \A f \in DOMAIN cf.functions : n \notin ResolvedCallers(f)
          /\ children_of(n) # <<>>
          /\ cache[n].calllink = 0
          /\ \A f \in DOMAIN cf.functions : n \notin Range(parents_of(cf.functions[f][1]))

\* The function definitions of a block, nested ones included.
RECURSIVE DefsIn(_)
DefsIn(block) ==
    UNION {(IF block[i].k = "functiondef" THEN {block[i]} ELSE {})
           \cup DefsIn(block[i].body) \cup DefsIn(block[i].orelse) : i \in DOMAIN block}

\* The lines of the return statements of a function body that belong to
\* the function: those not inside a nested function.
RECURSIVE OwnReturns(_)
OwnReturns(block) ==
    UNION {IF block[i].k = "return" THEN {block[i].lineno}
           ELSE IF block[i].k = "functiondef" THEN {}
           ELSE OwnReturns(block[i].body) \cup OwnReturns(block[i].orelse) : i \in DOMAIN block}

\* The enter node this build created for the definition d; the exit node is
\* created next.
EnterOf(d) == CHOOSE n \in BuildNodes : cache[n].lineno = d.lineno /\ cache[n].ast = "enter"

\* The walk is over and no later pass has run.
AfterWalk == pc = "update_children"

\* C17: after the walk, for every function definition d of the program the
\* return list of its enter node is not empty, holds every return node of d
\* and every node the body of d ends in, holds no node twice and is the
\* parents list of its exit node; and the name of d is registered with the
\* enter and exit node of a definition of that name (of d when no other
\* definition has its name).
C17_FunctionReturnList ==
    AfterWalk =>
        \A d \in DefsIn(Program) :
            /\ cache[EnterOf(d)].has_return_nodes
            /\ cache[EnterOf(d)].return_nodes # <<>>
            /\ \A n \in BuildNodes :
                   (cache[n].ast = "return" /\ cache[n].lineno \in OwnReturns(d.body))
                       => n \in Range(cache[EnterOf(d)].return_nodes)
            /\ EndNodes(d.body, {EnterOf(d)}) \subseteq Range(cache[EnterOf(d)].return_nodes)
            /\ \A n \in Nodes : Occurrences(cache[EnterOf(d)].return_nodes, n) <= 1
            /\ cache[EnterOf(d) + 1].ast = "exit"
            /\ parents_of(EnterOf(d) + 1) = cache[EnterOf(d)].return_nodes
            /\ d.name \in DOMAIN cf.functions
            /\ \E e \in DefsIn(Program) :
                   /\ e.name = d.name
                   /\ cf.functions[d.name] = <<EnterOf(e), EnterOf(e) + 1>>

\* The walk of a program with a function whose return list holds an
\* explicit return node and a fall-through node.
C17_Witness ==
    /\ AfterWalk
    /\ \E d \in DefsIn(Program) :
          /\ \E n \in Range(cache[EnterOf(d)].return_nodes) : cache[n].ast = "return"
          /\ \E n \in Range(cache[EnterOf(d)].return_nodes) : cache[n].ast # "return"
          /\ parents_of(EnterOf(d) + 1) = cache[EnterOf(d)].return_nodes
          /\ cf.functions[d.name] = <<EnterOf(d), EnterOf(d) + 1>>

\* C19: the registry maps every id to the node that carries it and the ids
\* handed out are 0, 1, 2, ...; no step (a build with its reset included)
\* replaces the node an id maps to (the node keeps its statement, its line
\* and, but for a call of set_parents, its parents list) or lowers the
\* counter, every new node gets an id above all earlier ones; and within a
\* build the nodes get
\* their ids in creation order: the start node first, the stop node last,
\* the nodes between them in the order of their statements.
C19_IdsUniqueAndIncreasing ==
    /\ [](/\ Nodes = 0..(registry - 1)
          /\ \A n \in Nodes : cache[n].rid = n)
    /\ [][/\ registry' >= registry
          /\ \A n \in Nodes :
                 /\ n \in DOMAIN cache'
                 /\ cache'[n].ast = cache[n].ast
                 /\ cache'[n].lineno = cache[n].lineno
                 /\ cache'[n].rid = cache[n].rid
                 /\ \/ cache'[n].parents = cache[n].parents
                    \/ result.status = "returned" /\ result'.status = "edited"
          /\ \A n \in DOMAIN cache' \ Nodes : n >= registry]_vars
    /\ [](Walked =>
             /\ \A n \in BuildNodes : cf.founder <= n /\ n <= cf.last_node
             /\ \A a, b \in BuildNodes \ {cf.founder, cf.last_node} :
                    cache[a].lineno < cache[b].lineno => a < b)

\* A build is finished that began with the registry of an earlier build:
\* its nodes carry the ids after those of the earlier build.
C19_Witness ==
    /\ pc = "return"
    /\ cf.founder > 0
    /\ Cardinality(BuildNodes) >= 3
    /\ \A n \in BuildNodes : cache[n].rid = n
    /\ \E n \in Nodes : n < cf.founder

\* C18: with two builds running in two threads, no two nodes have the same
\* id, every id maps to the node registered with it, and what a build
\* returns holds only nodes of that build.
C18_ConcurrentBuildsShareNothing ==
    /\ \A t, u \in DOMAIN tlocal : \A x \in MadeBy(t) : \A y \in MadeBy(u) :
           x # y => x.rid # y.rid
    /\ \A t \in DOMAIN tlocal : \A x \in MadeBy(t) :
           x.rid \in DOMAIN cache /\ node_of(cache[x.rid]) = x
    /\ \A t \in DOMAIN tlocal :
           tpc[t] = "done" => tlocal[t].returned \subseteq MadeBy(t)

\* C20: for every class of the Singleton metaclass at most one construction
\* ever completes, and every constructor call of whatever thread returns
\* the instance that construction made.
C20_SingletonHasOneInstance ==
    pc = "singleton" =>
        /\ \A c \in Classes : created[c] <= 1
        /\ \A c \in DOMAIN instances : instances[c] = 1
        /\ \A t \in Threads : \A r \in tlocal[t].returned : r[2] = 1

\* A thread holds the lock and finds, at the test under the lock, the
\* instance the other thread stored after this thread's first test; the
\* other thread has returned that instance.
C20_Witness ==
    /\ pc = "singleton"
    /\ \E t, u \in Threads :
          /\ t # u
          /\ tpc[t] = "check_locked"
          /\ lock = t
          /\ tlocal[t].cls \in DOMAIN instances
          /\ tlocal[t].calls = 1
          /\ <<tlocal[t].cls, 1>> \in tlocal[u].returned

\* The break and continue statements of a block, each with the loop that
\* encloses it innermost: <<line of the jump, kind of the jump, kind of the
\* loop, line of the loop>>; the loop kind is "none" outside every loop.
RECURSIVE Jumps(_, _, _)
Jumps(block, lk, ll) ==
    IF block = <<>> THEN {}
    ELSE LET s == Head(block)
         IN (IF s.k \in {"break", "continue"} THEN {<<s.lineno, s.k, lk, ll>>}
             ELSE IF s.k \in {"while", "for"} THEN Jumps(s.body, s.k, s.lineno)
             ELSE IF s.k = "if" THEN Jumps(s.body, lk, ll) \cup Jumps(s.orelse, lk, ll)
             ELSE IF s.k = "functiondef" THEN Jumps(s.body, "none", 0)
             ELSE {})
            \cup Jumps(Tail(block), lk, ll)

\* The test node of the loop whose header is on the given line.
LoopTest(lk, ll) ==
    CHOOSE n \in BuildNodes : cache[n].lineno = ll /\ cache[n].ast = NodeAst(lk)

\* C21: after the walk of a program whose break and continue statements
\* all lie in a loop, every break node is in the exit list of the test node
\* of the innermost loop around its statement, and every continue node is a
\* parent of that test node.
C21_JumpBelongsToInnermostLoop ==
    (Walked /\ ~HasStray(src, FALSE, FALSE)) =>
        \A j \in Jumps(Program, "none", 0) :
            \E b \in BuildNodes :
                /\ cache[b].ast = j[2]
                /\ cache[b].lineno = j[1]
                /\ j[2] = "break" => b \in Range(cache[LoopTest(j[3], j[4])].exit_nodes)
                /\ j[2] = "continue" => b \in Range(parents_of(LoopTest(j[3], j[4])))

\* The callee names on_call discovers in an expression.
RECURSIVE Discovered(_), DiscoveredIn(_)
Discovered(e) ==
    IF e.k = "call" THEN {get_func(e)} \cup DiscoveredIn(e.args)
    ELSE IF e.k = "compare" THEN DiscoveredIn(SubSeq(e.args, 1, 2))
    ELSE IF e.k \in {"binop", "unaryop"} THEN DiscoveredIn(e.args)
    ELSE {}

DiscoveredIn(args) == UNION {Discovered(args[i]) : i \in DOMAIN args}

\* All statements of a block, nested ones included.
RECURSIVE AllStmts(_)
AllStmts(block) ==
    UNION {{block[i]} \cup AllStmts(block[i].body) \cup AllStmts(block[i].orelse)
              : i \in DOMAIN block}

\* The statements with a call in their expression.
Callers == {s \in AllStmts(Program) : Discovered(s.value) # {}}

\* C22: after the walk the calls list of the node of every statement holds
\* exactly the callee names discovered in that statement, and the calls
\* list of every other node is empty.
C22_CallsGoToTheStatementNode ==
    Walked =>
        /\ \A s \in Callers : Range(cache[StmtNode(s)].calls) = Discovered(s.value)
        /\ \A n \in BuildNodes :
               cache[n].calls # <<>> => \E s \in Callers : n = StmtNode(s)

\* The nodes of the function definition d: its enter and exit node and the
\* nodes of the statements of its body.
InsideFn(d) ==
    {n \in BuildNodes :
        \/ cache[n].lineno \in {s.lineno : s \in AllStmts(d.body)}
        \/ cache[n].lineno = d.lineno /\ cache[n].ast \in {"enter", "exit"}}

\* A block without its function definitions; the other statements keep
\* their lines.
RECURSIVE StripDefs(_)
StripDefs(block) ==
    IF block = <<>> THEN <<>>
    ELSE IF Head(block).k = "functiondef" THEN StripDefs(Tail(block))
    ELSE <<[Head(block) EXCEPT !.body = StripDefs(@), !.orelse = StripDefs(@)]>>
         \o StripDefs(Tail(block))

\* The walk of the program without its function definitions, by a new
\* ControlFlow object on an empty registry.
WithoutDefs ==
    last_node(walk_from_last(
        NewList(ControlFlow([State EXCEPT !.registry = 0, !.cache = <<>>, !.lists = <<>>]), <<0>>),
        [parse(src) EXCEPT !.body = StripDefs(@)]))

\* A node named by what it was made for, and the parents of a node named
\* the same way, in list order.
Sig(c, n) == <<c[n].ast, c[n].lineno>>

ParentSigs(c, l, n) == [i \in DOMAIN l[c[n].parents] |-> Sig(c, l[c[n].parents][i])]

\* C23: after the walk and before call linking, no enter node has a parent,
\* every parent of a node of a function is a node of that function and
\* every parent of a node outside it is outside it, and the nodes outside
\* all functions, with their parents in order, are those the walk of the
\* program without its definitions creates: each statement after a
\* definition is linked as if the definition were not there.
C23_DefinitionLeavesFlowUntouched ==
    AfterWalk =>
        /\ \A d \in DefsIn(Program) :
              /\ parents_of(EnterOf(d)) = <<>>
              /\ \A n \in BuildNodes : \A p \in Range(parents_of(n)) :
                     (n \in InsideFn(d)) <=> (p \in InsideFn(d))
        /\ WithoutDefs.err = NoErr
        /\ {Sig(cache, n) : n \in BuildNodes \ UNION {InsideFn(d) : d \in DefsIn(Program)}}
               = {Sig(WithoutDefs.cache, m) : m \in DOMAIN WithoutDefs.cache}
        /\ \A n \in BuildNodes \ UNION {InsideFn(d) : d \in DefsIn(Program)} :
               \A m \in DOMAIN WithoutDefs.cache :
                   Sig(cache, n) = Sig(WithoutDefs.cache, m)
                       => ParentSigs(cache, lists, n)
                              = ParentSigs(WithoutDefs.cache, WithoutDefs.lists, m)

\* The walk of a program with a statement, a definition whose body has a
\* return, and a statement after it: the last statement's only parent is
\* the first statement.
C23_Witness ==
    /\ AfterWalk
    /\ Len(src) = 3
    /\ src[1].k = "pass"
    /\ src[2].k = "functiondef"
    /\ src[3].k = "pass"
    /\ \E n \in InsideFn(Program[2]) : cache[n].ast = "return"
    /\ parents_of(StmtNode(Program[3])) = <<StmtNode(Program[1])>>
    /\ parents_of(EnterOf(Program[2])) = <<>>

\* C24: in a finished build, however often link_functions has run, the
\* link count of every node is -1, 0 or 1; it is 1 only on a node that
\* calls a registered function and has a child, and a node without calls
\* has never been counted.
C24_LinkCountIsAtMostOne ==
    Finished =>
        \A n \in BuildNodes :
            /\ cache[n].calllink \in {-1, 0, 1}
            /\ cache[n].calllink = 1 =>
                   /\ Range(cache[n].calls) \cap DOMAIN cf.functions # {}
                   /\ children_of(n) # <<>>
            /\ cache[n].calls = <<>> => cache[n].calllink \in {-1, 0}

\* An expression in which on_call meets a call whose callee is a boolean
\* operator expression.
RECURSIVE HasBoolOpCallee(_)
HasBoolOpCallee(e) ==
    \/ e.k = "call" /\ e.fk = "boolop"
    \/ e.k = "call" /\ e.fk = "call" /\ HasBoolOpCallee(e.func)
    \/ e.k \in {"call", "binop", "unaryop"}
           /\ \E i \in DOMAIN e.args : HasBoolOpCallee(e.args[i])
    \/ e.k = "compare"
           /\ \E i \in DOMAIN SubSeq(e.args, 1, 2) : HasBoolOpCallee(e.args[i])

\* C25: a program with a call whose callee is a boolean operator expression
\* never gets past the walk: the build fails and no calls list is left
\* with an entry for it.
C25_BoolOpCalleeFails ==
    Walked => \A s \in AllStmts(Program) : ~HasBoolOpCallee(s.value)

\* C26: when reload_app has returned True or False, no temporary copy it
\* made is left in the app folder and the connection it opened is closed.
C26_ReloadCleansUp ==
    (pc = "qlik" /\ qlik.pc = "idle" /\ qlik.ret \in {"True", "False"}) =>
        /\ qlik.temps = 0
        /\ qlik.ws # "open"

\* C27: no build runs for ever: the climb of on_break, on_continue and
\* on_return along parents[0] never comes back to a node it has visited, so
\* every call of generate_control_flow returns a graph or raises an error.
C27_BuildTerminates ==
    result.err # "Diverges"

\* The branches of the if statements of the program that start with a
\* statement other than a loop, an if or a definition, each with its if.
BranchStarts ==
    {<<s, b>> \in AllStmts(Program) \X {"body", "orelse"} :
        /\ s.k = "if"
        /\ (IF b = "body" THEN s.body ELSE s.orelse) # <<>>
        /\ Head(IF b = "body" THEN s.body ELSE s.orelse).k
               \in {"pass", "expr", "assign", "augassign", "annassign",
                    "break", "continue", "return"}}

\* C28: after the walk the first node of a branch of an if has the if-test
\* node as its only parent, whatever edges were added to other nodes: a
\* back edge or continue edge added to a loop in the other branch is not
\* added to it.
C28_NodesOwnTheirParents ==
    Walked =>
        \A sb \in BranchStarts :
            parents_of(StmtNode(Head(IF sb[2] = "body" THEN sb[1].body ELSE sb[1].orelse)))
                = <<StmtNode(sb[1])>>

\* C29: no constructor call waits for ever: the thread that holds the lock
\* of the metaclass is never itself waiting for that lock, so every holder
\* goes on to release it and every waiting call gets its turn.
C29_SingletonNeverDeadlocks ==
    pc = "singleton" => (lock # 0 => tpc[lock] # "acquire")

\* The pages of a list of pages, one after the other.
RECURSIVE Concat(_)
Concat(pages) == IF pages = <<>> THEN <<>> ELSE Head(pages) \o Concat(Tail(pages))

\* C30: every round of the paging loop of get_all_issues either moves the
\* index forward or ends the loop, so that the loop ends after at most
\* `total` rounds whatever the server answers; and when the loop has ended
\* the list holds the issues of the returned pages, each once, in page
\* order.
C30_PagingLoopTerminates ==
    /\ [][jira.pc = "page" => (jira'.i > jira.i \/ jira'.pc # "page")]_vars
    /\ [](jira.pc = "done" =>
              /\ jira.issues = Concat(jira.pages)
              /\ \A a, b \in DOMAIN jira.issues : a # b => jira.issues[a] # jira.issues[b])

====
